---- MODULE Spec2Model ----
(***************************************************************************)
(* Cross-dataset concept alignment pipeline of pronghorn.                  *)
(*                                                                         *)
(*   - the merge edge function (merge-v2): JSON recovery and the           *)
(*     reconciliation of the merge groups proposed by the model;           *)
(*   - the extraction edge function (audit-extract-concepts);              *)
(*   - the client orchestrator (useAuditPipeline.runPipeline).             *)
(*                                                                         *)
(* Each part has its own specification over the shared variables:          *)
(* SpecMerge, SpecRounds, SpecExtract, SpecParse, SpecPipeline, SpecGraph, *)
(* SpecOverlap.                                                            *)
(***************************************************************************)
EXTENDS Integers, Sequences, FiniteSets, TLC

VARIABLES
    \* ---- merge edge function ----
    concepts,        \* MergeRequest.concepts of the request being served
    round,           \* MergeRequest.round
    mstatus,         \* "pending" | "done" | "error": the handler's position
    proposed,        \* parsed.merges || []: the merge groups the loop processed
    mergeResponse,   \* the MergeResponse sent as the "result" event
    firstInput,      \* the concepts of round 1 (kept by the caller of the rounds)
    \* ---- extraction edge function ----
    extractRequest,  \* ExtractRequest: dataset and elements (their ids)
    estatus,         \* "pending" | "done": the handler's position
    modelReply,      \* the Gemini HTTP response for this request
    extractResponse, \* the JSON body the handler answers with
    \* ---- JSON recovery on its own ----
    prose,           \* [pre, json, suf]: the text around and of the JSON object
    pstage,          \* "input" | "merge" | "extract": which stage parsed the text
    parsed,          \* the stage's parse of pre \o json \o suf
    \* the orchestrator hook (useAuditPipeline)
    isRunning,       \* useState isRunning
    progress,        \* useState progress: [phase, message, progress]
    error,           \* useState error: "null" or the message
    abortRef,        \* abortRef.current
    sessionStatus,   \* status of the audit session row
    pc,              \* per run: the await runPipeline is suspended at
    input,           \* per run: PipelineInput (ids of d1Elements, d2Elements)
    nodeIdx,         \* per run: element nodes upserted so far
    inflight,        \* per run: extraction requests not yet settled
    extracted,       \* per run: how each edge-function request settled
    events,          \* per run: the setProgress calls, in order
    calls,           \* per run: edge-function requests issued / returned, in order
    \* the graph of the session and what a run holds of it
    nodes,           \* audit graph nodes of the session, in creation order
    edges,           \* audit graph edges of the session, in creation order
    writeFaults,     \* persistence calls that have failed so far
    allNodes,        \* per run: the nodes read at the start of the graph phase
    mergeResult,     \* per run: the merge result (merged / unmerged concepts)
    conceptIdx,      \* per run: concepts written so far in the graph phase
    writes,          \* per run: the persistence calls that returned, in order
    venn             \* per run: the Venn result stored by the finalizer

mergeVars   == <<concepts, round, mstatus, proposed, mergeResponse, firstInput>>
extractVars == <<extractRequest, estatus, modelReply, extractResponse>>
parseVars   == <<prose, pstage, parsed>>
hookVars    == <<isRunning, progress, error, abortRef, sessionStatus>>
runVars     == <<pc, input, nodeIdx, inflight, extracted, events, calls>>
graphVars   == <<nodes, edges, writeFaults>>
graphRunVars == <<allNodes, mergeResult, conceptIdx, writes, venn>>
pipeVars    == <<hookVars, runVars, graphVars, graphRunVars>>

(***************************************************************************)
(* Bounds of the model.                                                    *)
(***************************************************************************)
MaxConcepts  == 3   \* concepts in one merge request
MaxRoundConcepts == 4   \* concepts in the first request of a sequence of rounds
MaxGroups    == 2   \* merge groups in one model answer
MaxGroupSize == 2   \* labels listed in one merge group
MaxIds       == 1   \* ids of one dataset held by one input concept
MaxAffix     == 1   \* tokens of text before / after the JSON object
MaxJsonLen   == 4   \* tokens of the JSON object itself
MaxElements  == 2   \* elements in one extraction request
MaxExtracted == 2   \* concepts in one extraction answer
MaxElementIds == 2  \* element ids listed by one extracted concept
MaxRuns      == 2   \* calls of runPipeline on one hook
MaxWriteFaults == 1 \* failing node / edge / read calls in one behaviour

(***************************************************************************)
(* Sequences.                                                              *)
(***************************************************************************)
SeqsUpTo(S, n) == UNION { [1..k -> S] : k \in 0..n }

ToSet(s) == { s[i] : i \in DOMAIN s }

RECURSIVE SumLen(_, _)
\* concepts.reduce((sum, c) => sum + (c.<side>?.length || 0), 0)
SumLen(cs, side) ==
    IF cs = <<>> THEN 0
    ELSE (IF side = "d1" THEN Len(Head(cs).d1Ids) ELSE Len(Head(cs).d2Ids))
         + SumLen(Tail(cs), side)

RECURSIVE Dedupe(_)
\* [...new Set(s)]: first occurrences, in order
Dedupe(s) ==
    IF s = <<>> THEN <<>>
    ELSE LET r == Dedupe(SubSeq(s, 1, Len(s) - 1))
             x == s[Len(s)]
         IN  IF x \in ToSet(r) THEN r ELSE Append(r, x)

RECURSIVE FlatD1(_)
FlatD1(cs) == IF cs = <<>> THEN <<>> ELSE Head(cs).d1Ids \o FlatD1(Tail(cs))

RECURSIVE FlatD2(_)
FlatD2(cs) == IF cs = <<>> THEN <<>> ELSE Head(cs).d2Ids \o FlatD2(Tail(cs))

RECURSIVE FlatLabels(_)
FlatLabels(cs) ==
    IF cs = <<>> THEN <<>> ELSE Head(cs).elementLabels \o FlatLabels(Tail(cs))

(***************************************************************************)
(* Labels.  toLowerCase is modelled on the finite label universe.          *)
(***************************************************************************)
InputLabels    == {"Auth", "auth", "Log", "Impl"}
\* the label the model gives a merged concept: new when no input concept is
\* called Log, equal to the label of a concept of the request otherwise
MergedLabels   == {"Log"}

ToLowerCase(s) ==
    CASE s = "Auth" -> "auth"
      [] s = "Log"   -> "log"
      [] s = "Impl"  -> "impl"
      [] s = "Misc"  -> "misc"
      [] s = "Ghost" -> "ghost"
      [] OTHER      -> s
(***************************************************************************)
(* Model text.  The text returned by the model is a sequence of tokens:    *)
(*   "{" "}" "[" "]"  JSON brackets                                        *)
(*   "k"  a member carrying the stage's payload ("merges": [...] for the   *)
(*        merger, "concepts": [...] for the extractor)                     *)
(*   "w"  whitespace                                                       *)
(*   "p"  prose or markdown fencing (never valid JSON)                     *)
(***************************************************************************)
Tokens == {"{", "}", "[", "]", "k", "w", "p"}

RECURSIVE Scan(_, _, _, _)
\* JSON.parse's grammar on tokens: exactly one object or array at top level,
\* members only directly inside an object, whitespace anywhere
Scan(t, i, stack, done) ==
    IF i > Len(t) THEN stack = <<>> /\ done
    ELSE LET c == t[i]
             n == Len(stack)
         IN  CASE c = "w" -> Scan(t, i + 1, stack, done)
               [] c = "p" -> FALSE
               [] c \in {"{", "["} ->
                    IF stack = <<>> /\ done THEN FALSE
                    ELSE Scan(t, i + 1, Append(stack, c), done)
               [] c = "}" ->
                    /\ n > 0
                    /\ stack[n] = "{"
                    /\ Scan(t, i + 1, SubSeq(stack, 1, n - 1), n = 1)
               [] c = "]" ->
                    /\ n > 0
                    /\ stack[n] = "["
                    /\ Scan(t, i + 1, SubSeq(stack, 1, n - 1), n = 1)
               [] c = "k" ->
                    /\ n > 0
                    /\ stack[n] = "{"
                    /\ Scan(t, i + 1, stack, done)

NotWhitespace(c) == c # "w"

\* JSON.parse(text): throws (ok = FALSE) or yields the value, whitespace gone
JSONParse(t) ==
    IF Scan(t, 1, <<>>, FALSE)
    THEN [ok |-> TRUE, value |-> SelectSeq(t, NotWhitespace)]
    ELSE [ok |-> FALSE, value |-> <<>>]

\* String.prototype.indexOf / lastIndexOf, 0-based, -1 when absent
IndexOf(t, c) ==
    IF \E i \in DOMAIN t : t[i] = c
    THEN (CHOOSE i \in DOMAIN t : t[i] = c /\ \A j \in 1..(i - 1) : t[j] # c) - 1
    ELSE -1

LastIndexOf(t, c) ==
    IF \E i \in DOMAIN t : t[i] = c
    THEN (CHOOSE i \in DOMAIN t : t[i] = c /\ \A j \in (i + 1)..Len(t) : t[j] # c) - 1
    ELSE -1

\* String.prototype.slice(from, to) with 0-based from, exclusive to
Slice(t, from, to) == SubSeq(t, from + 1, to)

\* nesting depth of position i of a parsed value
Depth(v, i) ==
    Cardinality({ j \in 1..(i - 1) : v[j] \in {"{", "["} })
    - Cardinality({ j \in 1..(i - 1) : v[j] \in {"}", "]"} })

\* parsed.merges / parsed.concepts is defined: the value is an object with the
\* payload member directly inside it
HasPayload(v) ==
    /\ v # <<>>
    /\ v[1] = "{"
    /\ \E i \in DOMAIN v : v[i] = "k" /\ Depth(v, i) = 1

\* merge-v2 "Parse JSON": direct parse, else first "{" to last "}"
ParseMergeText(rawText) ==
    LET direct    == JSONParse(rawText)
        firstBrace == IndexOf(rawText, "{")
        lastBrace  == LastIndexOf(rawText, "}")
    IN  IF direct.ok THEN direct
        ELSE IF firstBrace # -1 /\ lastBrace > firstBrace
             THEN JSONParse(Slice(rawText, firstBrace, lastBrace + 1))
             ELSE [ok |-> FALSE, value |-> <<>>]

(***************************************************************************)
(* Merge reconciliation (merge-v2).                                        *)
(***************************************************************************)
\* conceptByLabel.has(key)
HasConcept(cs, key) == \E i \in DOMAIN cs : ToLowerCase(cs[i].label) = key

\* conceptByLabel.get(key): Map.set overwrites, the last concept of a key stays
ConceptByLabel(cs, key) ==
    cs[CHOOSE i \in DOMAIN cs :
          /\ ToLowerCase(cs[i].label) = key
          /\ \A j \in DOMAIN cs : ToLowerCase(cs[j].label) = key => j <= i]

RECURSIVE ResolveLabelsNoSkip(_, _, _, _)
\* the label loop without its "already merged" test
ResolveLabelsNoSkip(cs, labels, merged, valid) ==
    IF labels = <<>> THEN [mergedLabels |-> merged, validSources |-> valid]
    ELSE LET key == ToLowerCase(Head(labels))
         IN  IF HasConcept(cs, key)
             THEN ResolveLabelsNoSkip(cs, Tail(labels), merged \cup {key},
                                      Append(valid, ConceptByLabel(cs, key)))
             ELSE ResolveLabelsNoSkip(cs, Tail(labels), merged, valid)

RECURSIVE ResolveLabels(_, _, _, _)
\* for (const label of (m.sourceConcepts || [])) { ... }
ResolveLabels(cs, labels, merged, valid) ==
    IF labels = <<>> THEN [mergedLabels |-> merged, validSources |-> valid]
    ELSE LET key == ToLowerCase(Head(labels))
         IN  IF key \in merged
             THEN ResolveLabels(cs, Tail(labels), merged, valid)
             ELSE IF HasConcept(cs, key)
                  THEN ResolveLabels(cs, Tail(labels), merged \cup {key},
                                     Append(valid, ConceptByLabel(cs, key)))
                  ELSE ResolveLabels(cs, Tail(labels), merged, valid)

\* the mergedConcept built from 2+ valid sources
MergedConcept(m, validSources) ==
    [label         |-> m.mergedLabel,
     description   |-> m.mergedDescription,
     d1Ids         |-> Dedupe(FlatD1(validSources)),
     d2Ids         |-> Dedupe(FlatD2(validSources)),
     elementLabels |-> Dedupe(FlatLabels(validSources))]

\* an iteration that leaves the member of a one-member group marked
ProcessGroupNoUnmark(cs, st, m) ==
    LET r  == ResolveLabels(cs, m.sourceConcepts, st.mergedLabels, <<>>)
        vs == r.validSources
    IN  IF Len(vs) >= 2
        THEN [mergedLabels   |-> r.mergedLabels,
              outputConcepts |-> Append(st.outputConcepts, MergedConcept(m, vs)),
              mergeLog       |-> Append(st.mergeLog,
                                        [from |-> [i \in DOMAIN vs |-> vs[i].label],
                                         to   |-> m.mergedLabel])]
        ELSE [st EXCEPT !.mergedLabels = r.mergedLabels]

\* one iteration of "for (const m of (parsed.merges || []))"
ProcessGroup(cs, st, m) ==
    LET r  == ResolveLabels(cs, m.sourceConcepts, st.mergedLabels, <<>>)
        vs == r.validSources
    IN  IF Len(vs) >= 2
        THEN [mergedLabels   |-> r.mergedLabels,
              outputConcepts |-> Append(st.outputConcepts, MergedConcept(m, vs)),
              mergeLog       |-> Append(st.mergeLog,
                                        [from |-> [i \in DOMAIN vs |-> vs[i].label],
                                         to   |-> m.mergedLabel])]
        ELSE IF Len(vs) = 1
             THEN [st EXCEPT !.mergedLabels =
                                 r.mergedLabels \ {ToLowerCase(vs[1].label)}]
             ELSE [st EXCEPT !.mergedLabels = r.mergedLabels]

RECURSIVE ProcessMerges(_, _, _)
ProcessMerges(cs, ms, st) ==
    IF ms = <<>> THEN st
    ELSE ProcessMerges(cs, Tail(ms), ProcessGroup(cs, st, Head(ms)))

RECURSIVE PassThrough(_, _)
\* for (const c of concepts) if (!mergedLabels.has(c.label.toLowerCase())) push
PassThrough(cs, merged) ==
    IF cs = <<>> THEN <<>>
    ELSE (IF ToLowerCase(Head(cs).label) \in merged THEN <<>> ELSE <<Head(cs)>>)
         \o PassThrough(Tail(cs), merged)

\* the whole reconciliation and the MergeResponse built from it
Reconcile(cs, ms) ==
    LET st  == ProcessMerges(cs, ms,
                   [mergedLabels |-> {}, outputConcepts |-> <<>>, mergeLog |-> <<>>])
        out == st.outputConcepts \o PassThrough(cs, st.mergedLabels)
    IN  [concepts       |-> out,
         mergeLog       |-> st.mergeLog,
         inputCount     |-> Len(cs),
         outputCount    |-> Len(out),
         d1ElementCount |-> SumLen(out, "d1"),
         d2ElementCount |-> SumLen(out, "d2")]
(***************************************************************************)
(* Inputs of the merge edge function.                                      *)
(***************************************************************************)
D1Ids == {"A", "B"}
D2Ids == {"X"}

ElementLabel(id) ==
    CASE id = "A" -> "login form"
      [] id = "B" -> "password reset"
      [] id = "C" -> "audit trail"
      [] id = "X" -> "auth.ts"
      [] OTHER    -> "cron.ts"

\* a concept as the per-dataset extraction hands it over: ids of one dataset
ExtractedConcept(l, side, ids) ==
    [label         |-> l,
     description   |-> "extracted",
     d1Ids         |-> IF side = "d1" THEN ids ELSE <<>>,
     d2Ids         |-> IF side = "d2" THEN ids ELSE <<>>,
     elementLabels |-> [i \in DOMAIN ids |-> ElementLabel(ids[i])]]

ConceptPool ==
    { ExtractedConcept(l, "d1", ids) :
          l \in InputLabels, ids \in SeqsUpTo(D1Ids, MaxIds) \ {<<>>} }
    \cup
    { ExtractedConcept(l, "d2", ids) :
          l \in InputLabels, ids \in SeqsUpTo(D2Ids, MaxIds) \ {<<>>} }

InputConceptLists == SeqsUpTo(ConceptPool, MaxConcepts) \ {<<>>}

\* the ids of one side held by concept c, as a set
IdSet(c, side) == IF side = "d1" THEN ToSet(c.d1Ids) ELSE ToSet(c.d2Ids)

\* every id belongs to exactly one concept and is listed once
ExactlyOneMembership(cs) ==
    \A side \in {"d1", "d2"} :
        /\ \A i, j \in DOMAIN cs : i # j => IdSet(cs[i], side) \cap IdSet(cs[j], side) = {}
        /\ \A i \in DOMAIN cs :
               Cardinality(IdSet(cs[i], side)) =
                   (IF side = "d1" THEN Len(cs[i].d1Ids) ELSE Len(cs[i].d2Ids))

DistinctLabels(cs) ==
    \A i, j \in DOMAIN cs :
        i # j => ToLowerCase(cs[i].label) # ToLowerCase(cs[j].label)

\* the model names concepts of the prompt's list in its own capitalisation, or
\* a concept that is not in the list
Capitalised(s) == IF s = "auth" THEN "Auth" ELSE s

ProposedLabels(cs) == { Capitalised(cs[i].label) : i \in DOMAIN cs } \cup {"Ghost"}

\* what the model may propose: { merges: [{sourceConcepts, mergedLabel, mergedDescription}] }
MergeGroups(cs) ==
    { [sourceConcepts |-> src, mergedLabel |-> l, mergedDescription |-> "merged"] :
          src \in SeqsUpTo(ProposedLabels(cs), MaxGroupSize), l \in MergedLabels }

Proposals(cs) == SeqsUpTo(MergeGroups(cs), MaxGroups)

\* the shapes of text the model answers with
ReplyTexts ==
    { <<"{", "k", "}">>,                          \* the JSON asked for
      <<"p", "w", "{", "k", "}", "w", "p">>,      \* fenced in markdown
      <<"{", "}">>,                               \* an object without the field
      <<"p">>,                                    \* prose only
      <<"p", "{", "p", "}", "{", "k", "}">>,      \* prose that itself holds braces
      <<>> }                                      \* no text at all

\* the texts whose payload reaches the merge loop
PayloadTexts == { t \in ReplyTexts : HasPayload(ParseMergeText(t).value) }

LLMReplies(cs) ==
    { [fails |-> TRUE, text |-> <<>>, merges |-> <<>>] }
    \cup
    { [fails |-> FALSE, text |-> t, merges |-> ms] :
          t \in PayloadTexts, ms \in Proposals(cs) }
    \cup
    { [fails |-> FALSE, text |-> t, merges |-> <<>>] : t \in ReplyTexts \ PayloadTexts }

\* callLLM's "text || "{}"": an empty text becomes the empty object
CallLLM(reply) == IF reply.text = <<>> THEN <<"{", "}">> ELSE reply.text

EmptyResponse ==
    [concepts |-> <<>>, mergeLog |-> <<>>, inputCount |-> 0, outputCount |-> 0,
     d1ElementCount |-> 0, d2ElementCount |-> 0]

TotalRounds == 3

(***************************************************************************)
(* The merge edge function serving one request.                            *)
(***************************************************************************)
MergeIdle ==
    /\ concepts = <<>>
    /\ round = 0
    /\ mstatus = "idle"
    /\ proposed = <<>>
    /\ mergeResponse = EmptyResponse
    /\ firstInput = <<>>

MergeRequested(inputs) ==
    /\ concepts \in inputs
    /\ round = 1
    /\ mstatus = "pending"
    /\ proposed = <<>>
    /\ mergeResponse = EmptyResponse
    /\ firstInput = concepts

MergeFailed ==
    /\ mstatus' = "error"
    /\ proposed' = <<>>
    /\ mergeResponse' = EmptyResponse
    /\ UNCHANGED <<concepts, round, firstInput>>

MergeHandler ==
    /\ mstatus = "pending"
    /\ \E reply \in LLMReplies(concepts) :
          IF reply.fails THEN MergeFailed
          ELSE LET p == ParseMergeText(CallLLM(reply))
               IN  IF ~p.ok THEN MergeFailed
                   ELSE LET ms == IF HasPayload(p.value) THEN reply.merges ELSE <<>>
                        IN  /\ mstatus' = "done"
                            /\ proposed' = ms
                            /\ mergeResponse' = Reconcile(concepts, ms)
                            /\ UNCHANGED <<concepts, round, firstInput>>
    /\ UNCHANGED <<extractVars, parseVars, pipeVars>>

\* the rounds: the concept list of round n is the request of round n + 1
NextRound ==
    /\ mstatus = "done"
    /\ round < TotalRounds
    /\ concepts' = mergeResponse.concepts
    /\ round' = round + 1
    /\ mstatus' = "pending"
    /\ proposed' = <<>>
    /\ mergeResponse' = EmptyResponse
    /\ UNCHANGED firstInput
    /\ UNCHANGED <<extractVars, parseVars, pipeVars>>

(***************************************************************************)
(* The extraction edge function (audit-extract-concepts).                  *)
(***************************************************************************)
\* extraction "Parse JSON": direct parse, else first "{" to last "}"
ParseExtractText(rawText) ==
    LET direct     == JSONParse(rawText)
        firstBrace == IndexOf(rawText, "{")
        lastBrace  == LastIndexOf(rawText, "}")
    IN  IF direct.ok THEN direct
        ELSE IF firstBrace # -1 /\ lastBrace > firstBrace
             THEN JSONParse(Slice(rawText, firstBrace, lastBrace + 1))
             ELSE [ok |-> FALSE, value |-> <<>>]

ElementIds == {"A", "B"}

\* requests: one dataset's elements, distinct ids
ExtractRequests ==
    { [dataset |-> d, elements |-> es] :
          d \in {"d1", "d2"},
          es \in { e \in SeqsUpTo(ElementIds, MaxElements) \ {<<>>} :
                      Cardinality(ToSet(e)) = Len(e) } }

\* the concepts the model may return: any ids, also ids that are not in the request
ExtractedConcepts ==
    { [label |-> l, description |-> "extracted", elementIds |-> ids] :
          l \in {"Auth", "Log"},
          ids \in SeqsUpTo(ElementIds \cup {"Z"}, MaxElementIds) }

ExtractPayloads == SeqsUpTo(ExtractedConcepts, MaxExtracted)

ExtractPayloadTexts == { t \in ReplyTexts : HasPayload(ParseExtractText(t).value) }

\* the Gemini call: fetch rejects, answers a non-OK status, or answers with a
\* text (possibly none) holding the JSON
ModelReplies ==
    { [kind |-> k, text |-> <<>>, concepts |-> <<>>] : k \in {"throw", "http_error"} }
    \cup
    { [kind |-> "ok", text |-> t, concepts |-> cs] :
          t \in ExtractPayloadTexts, cs \in ExtractPayloads }
    \cup
    { [kind |-> "ok", text |-> t, concepts |-> <<>>] :
          t \in ReplyTexts \ ExtractPayloadTexts }

NoExtractResponse ==
    [status |-> 0, success |-> FALSE, concepts |-> <<>>, elementCount |-> 0]

ExtractIdle ==
    /\ extractRequest = [dataset |-> "d1", elements |-> <<>>]
    /\ estatus = "idle"
    /\ modelReply = [kind |-> "none", text |-> <<>>, concepts |-> <<>>]
    /\ extractResponse = NoExtractResponse

\* the catch block: { success: false, error } with status 500
ExtractFailure ==
    [status |-> 500, success |-> FALSE, concepts |-> <<>>, elementCount |-> 0]

\* the body of the handler once Gemini has answered with reply
ExtractAnswer(req, reply) ==
    IF reply.kind # "ok" THEN ExtractFailure
    ELSE LET rawText == IF reply.text = <<>> THEN <<"{", "}">> ELSE reply.text
             p       == ParseExtractText(rawText)
         IN  IF ~p.ok THEN ExtractFailure
             ELSE [status       |-> 200,
                   success      |-> TRUE,
                   concepts     |-> IF HasPayload(p.value) THEN reply.concepts ELSE <<>>,
                   elementCount |-> Len(req.elements)]

ExtractHandler ==
    /\ estatus = "pending"
    /\ \E reply \in ModelReplies :
          /\ modelReply' = reply
          /\ extractResponse' = ExtractAnswer(extractRequest, reply)
    /\ estatus' = "done"
    /\ UNCHANGED extractRequest
    /\ UNCHANGED <<mergeVars, parseVars, pipeVars>>

(***************************************************************************)
(* JSON recovery of both stages on a JSON object inside other text.        *)
(***************************************************************************)
\* the JSON objects J: valid, from "{" to "}"
JsonObjects ==
    { t \in SeqsUpTo(Tokens, MaxJsonLen) :
          /\ t # <<>>
          /\ t[1] = "{"
          /\ t[Len(t)] = "}"
          /\ JSONParse(t).ok }

Affixes == SeqsUpTo(Tokens, MaxAffix)

ModelText == prose.pre \o prose.json \o prose.suf

ParseIdle ==
    /\ prose = [pre |-> <<>>, json |-> <<>>, suf |-> <<>>]
    /\ pstage = "idle"
    /\ parsed = [ok |-> FALSE, value |-> <<>>]

\* the merger parses the model text
MergerParses ==
    /\ pstage = "input"
    /\ pstage' = "merge"
    /\ parsed' = ParseMergeText(ModelText)
    /\ UNCHANGED prose
    /\ UNCHANGED <<mergeVars, extractVars, pipeVars>>

\* the extractor parses the model text
ExtractorParses ==
    /\ pstage = "input"
    /\ pstage' = "extract"
    /\ parsed' = ParseExtractText(ModelText)
    /\ UNCHANGED prose
    /\ UNCHANGED <<mergeVars, extractVars, pipeVars>>

(***************************************************************************)
(* The orchestrator: useAuditPipeline.runPipeline and abort.               *)
(* An action is one resumption of runPipeline: from the settling of the    *)
(* promise it awaits to the next await.                                    *)
(***************************************************************************)
Runs == 1..MaxRuns

PipelineInputs ==
    { [d1Elements |-> <<"A", "B">>, d2Elements |-> <<"X">>],
      [d1Elements |-> <<"A">>,      d2Elements |-> <<>>] }

\* the progress literals with the one of building_graph below its predecessor's
ProgressOfRegressed(phase) ==
    CASE phase = "creating_nodes"     -> 5
      [] phase = "extracting_d1"      -> 15
      [] phase = "merging_concepts"   -> 35
      [] phase = "building_graph"     -> 30
      [] phase = "building_tesseract" -> 65
      [] phase = "generating_venn"    -> 85
      [] phase = "completed"          -> 100
      [] OTHER                        -> 0

\* the progress literal of each setProgress call
ProgressOf(phase) ==
    CASE phase = "creating_nodes"     -> 5
      [] phase = "extracting_d1"      -> 15
      [] phase = "merging_concepts"   -> 35
      [] phase = "building_graph"     -> 50
      [] phase = "building_tesseract" -> 65
      [] phase = "generating_venn"    -> 85
      [] phase = "completed"          -> 100
      [] OTHER                        -> 0

\* the message of each setProgress call (counts left out)
MessageOf(phase) ==
    CASE phase = "creating_nodes"     -> "Creating D1 and D2 nodes..."
      [] phase = "extracting_d1"      -> "Extracting concepts..."
      [] phase = "merging_concepts"   -> "Merging concepts..."
      [] phase = "building_graph"     -> "Creating merged concept nodes and edges..."
      [] phase = "building_tesseract" -> "Analyzing merged concepts for alignment..."
      [] phase = "generating_venn"    -> "Generating final Venn analysis..."
      [] phase = "completed"          -> "Audit pipeline complete!"
      [] OTHER                        -> ""

IdleProgress == [phase |-> "idle", message |-> "", progress |-> ProgressOf("idle")]

\* setProgress({ phase, message, progress })
SetProgress(r, phase) ==
    LET p == [phase |-> phase, message |-> MessageOf(phase), progress |-> ProgressOf(phase)]
    IN  /\ progress' = p
        /\ events' = [events EXCEPT ![r] = Append(@, p)]

\* a catch block that sets the error value without reporting the error phase
CatchSilent(r, errMsg, reported) ==
    /\ error' = errMsg
    /\ progress' = progress
    /\ events' = [events EXCEPT ![r] = reported]
    /\ pc' = [pc EXCEPT ![r] = "await_session_failed"]

\* the catch block up to its await: setError, setProgress(error), update the session
Catch(r, errMsg, reported) ==
    LET p == [phase |-> "error", message |-> errMsg, progress |-> ProgressOf("error")]
    IN  /\ error' = errMsg
        /\ progress' = p
        /\ events' = [events EXCEPT ![r] = reported \o <<p>>]
        /\ pc' = [pc EXCEPT ![r] = "await_session_failed"]

\* the stage boundary without its abort check
AdvanceUnchecked(r, phase, logged, request, next) ==
    /\ SetProgress(r, phase)
    /\ pc' = [pc EXCEPT ![r] = next]
    /\ calls' = [calls EXCEPT ![r] = logged \o request]
    /\ UNCHANGED error

\* setProgress(phase); if (abortRef.current) throw new Error("Aborted"); then the
\* request of the next stage is issued and awaited at next.  logged is the call
\* log with the return that resumed the run.
Advance(r, phase, logged, request, next) ==
    LET p == [phase |-> phase, message |-> MessageOf(phase), progress |-> ProgressOf(phase)]
    IN  IF abortRef
        THEN /\ Catch(r, "Aborted", Append(events[r], p))
             /\ calls' = [calls EXCEPT ![r] = logged]
        ELSE /\ SetProgress(r, phase)
             /\ pc' = [pc EXCEPT ![r] = next]
             /\ calls' = [calls EXCEPT ![r] = logged \o request]
             /\ UNCHANGED error

Issue(name)  == <<"issue", name>>
Return(name) == <<"return", name>>

\* how a fetch of an edge function settles: it (or reading its body) rejects,
\* or it resolves with a non-OK status, with a body saying success: false, or
\* with a result
FetchOutcomes == {"throw", "http_error", "no_success", "ok"}

\* the tesseract and venn answers: runPipeline reads no success field of them
ScorerOutcomes == {"throw", "http_error", "ok"}

(***************************************************************************)
(* The persistence boundary: the graph of the session and its RPCs.        *)
(***************************************************************************)
\* one persistence call of a run, as logged when it returns
Write(op, key, of, ok) == [op |-> op, key |-> key, of |-> of, ok |-> ok]

\* a failed persistence call counts
Failed(ok) == IF ok THEN 0 ELSE 1

\* a row for an input element that does not carry the element's id as its key
ElementRowNoIds(id, side) ==
    [label            |-> id,
     nodeType         |-> IF side = "d1" THEN "d1_element" ELSE "d2_element",
     sourceDataset    |-> IF side = "d1" THEN "dataset1" ELSE "dataset2",
     sourceElementIds |-> <<>>,
     metadata         |-> "category"]

\* the row upserted for an input element
ElementRow(id, side) ==
    [label            |-> id,
     nodeType         |-> IF side = "d1" THEN "d1_element" ELSE "d2_element",
     sourceDataset    |-> IF side = "d1" THEN "dataset1" ELSE "dataset2",
     sourceElementIds |-> <<id>>,
     metadata         |-> "category"]

\* the row upserted for a concept of the merge result
ConceptRow(c) ==
    [label            |-> c.label,
     nodeType         |-> "concept",
     sourceDataset    |-> c.sourceDataset,
     sourceElementIds |-> c.d1Ids \o c.d2Ids,
     metadata         |-> c.metadata]

\* upsert_audit_graph_node_with_token: the node of the session with these
\* sourceElementIds, 0 when there is none
KeyIndex(ns, ids) ==
    IF \E i \in DOMAIN ns : ns[i].sourceElementIds = ids
    THEN CHOOSE i \in DOMAIN ns :
             /\ ns[i].sourceElementIds = ids
             /\ \A j \in DOMAIN ns : ns[j].sourceElementIds = ids => i <= j
    ELSE 0

\* the id of the node the upsert returns
UpsertedId(ns, row) ==
    IF KeyIndex(ns, row.sourceElementIds) = 0 THEN Len(ns) + 1
    ELSE ns[KeyIndex(ns, row.sourceElementIds)].id

\* the nodes after the upsert: the row replaces the node of its key, or is new
UpsertNode(ns, row) ==
    LET k    == KeyIndex(ns, row.sourceElementIds)
        node == [id               |-> UpsertedId(ns, row),
                 label            |-> row.label,
                 nodeType         |-> row.nodeType,
                 sourceDataset    |-> row.sourceDataset,
                 sourceElementIds |-> row.sourceElementIds,
                 metadata         |-> row.metadata]
    IN  IF k = 0 THEN Append(ns, node) ELSE [ns EXCEPT ![k] = node]

\* allNodes?.find(n => n.source_element_ids?.includes(id)): index of the first, or 0
FindNode(snapshot, id) ==
    IF snapshot.defined
       /\ \E i \in DOMAIN snapshot.nodes : id \in ToSet(snapshot.nodes[i].sourceElementIds)
    THEN CHOOSE i \in DOMAIN snapshot.nodes :
             /\ id \in ToSet(snapshot.nodes[i].sourceElementIds)
             /\ \A j \in DOMAIN snapshot.nodes :
                    id \in ToSet(snapshot.nodes[j].sourceElementIds) => i <= j
    ELSE 0

RECURSIVE EdgeWrites(_, _, _, _, _)
\* the edge inserts of one concept for the ids of one side: one per id whose
\* node is found in allNodes; the inserts of the ids in fails fail
EdgeWrites(ids, edgeType, target, snapshot, fails) ==
    IF ids = <<>> THEN <<>>
    ELSE LET id == Head(ids)
             k  == FindNode(snapshot, id)
         IN  (IF k = 0 THEN <<>>
              ELSE << [source   |-> snapshot.nodes[k].id,
                       target   |-> target,
                       edgeType |-> edgeType,
                       element  |-> id,
                       ok       |-> id \notin fails] >>)
             \o EdgeWrites(Tail(ids), edgeType, target, snapshot, fails)

RECURSIVE Inserted(_)
\* the edges of the inserts that succeeded
Inserted(ws) ==
    IF ws = <<>> THEN <<>>
    ELSE (IF Head(ws).ok
          THEN << [source |-> Head(ws).source, target |-> Head(ws).target,
                   edgeType |-> Head(ws).edgeType] >>
          ELSE <<>>)
         \o Inserted(Tail(ws))

RECURSIVE FailedCount(_)
FailedCount(ws) == IF ws = <<>> THEN 0 ELSE Failed(Head(ws).ok) + FailedCount(Tail(ws))

(***************************************************************************)
(* The answer of the merge edge function as runPipeline reads it.          *)
(***************************************************************************)
NoMergeResult ==
    [mergedConcepts |-> <<>>, unmergedD1Concepts |-> <<>>, unmergedD2Concepts |-> <<>>]

\* one concept holding every element: merged across the datasets
AllAligned(inp) ==
    [mergedConcepts     |-> << [mergedLabel |-> "Authentication",
                                d1Ids |-> inp.d1Elements, d2Ids |-> inp.d2Elements] >>,
     unmergedD1Concepts |-> <<>>,
     unmergedD2Concepts |-> <<>>]

\* the first D1 element merged with the D2 elements, the other D1 elements a gap
Split(inp) ==
    [mergedConcepts     |-> << [mergedLabel |-> "Authentication",
                                d1Ids |-> IF inp.d1Elements = <<>> THEN <<>>
                                          ELSE <<Head(inp.d1Elements)>>,
                                d2Ids |-> inp.d2Elements] >>,
     unmergedD1Concepts |-> IF Len(inp.d1Elements) > 1
                            THEN << [label |-> "Logging", d1Ids |-> Tail(inp.d1Elements)] >>
                            ELSE <<>>,
     unmergedD2Concepts |-> <<>>]

\* nothing merged: one gap with the D1 elements, one orphan with the D2 elements
Unmerged(inp) ==
    [mergedConcepts     |-> <<>>,
     unmergedD1Concepts |-> IF inp.d1Elements # <<>>
                            THEN << [label |-> "Requirements", d1Ids |-> inp.d1Elements] >>
                            ELSE <<>>,
     unmergedD2Concepts |-> IF inp.d2Elements # <<>>
                            THEN << [label |-> "Implementation", d2Ids |-> inp.d2Elements] >>
                            ELSE <<>>]

\* the D1 elements merged among themselves, the D2 elements an orphan; as
\* Unmerged when there are not two D1 elements to merge
Intra(inp) ==
    IF Len(inp.d1Elements) < 2 THEN Unmerged(inp)
    ELSE [mergedConcepts     |-> << [mergedLabel |-> "Requirements",
                                     d1Ids |-> inp.d1Elements, d2Ids |-> <<>>] >>,
          unmergedD1Concepts |-> <<>>,
          unmergedD2Concepts |-> Unmerged(inp).unmergedD2Concepts]

\* as Split, the gap lost on the way (an element in no concept)
Lossy(inp) == [Split(inp) EXCEPT !.unmergedD1Concepts = <<>>]

\* what the merge edge function may answer for the concepts of inp
MergeResults(inp) ==
    {AllAligned(inp), Split(inp), Unmerged(inp), Intra(inp), Lossy(inp), NoMergeResult}

\* the answers in which every element of inp is in exactly one concept
CoveringResults(inp) == {AllAligned(inp), Split(inp), Unmerged(inp), Intra(inp)}

\* the concepts in the order the graph loops write them: merged, gaps, orphans
ConceptWrites(m) ==
    [i \in DOMAIN m.mergedConcepts |->
        [label |-> m.mergedConcepts[i].mergedLabel, sourceDataset |-> "both",
         metadata |-> "merged",
         d1Ids |-> m.mergedConcepts[i].d1Ids, d2Ids |-> m.mergedConcepts[i].d2Ids]]
    \o
    [i \in DOMAIN m.unmergedD1Concepts |->
        [label |-> m.unmergedD1Concepts[i].label, sourceDataset |-> "dataset1",
         metadata |-> "gap",
         d1Ids |-> m.unmergedD1Concepts[i].d1Ids, d2Ids |-> <<>>]]
    \o
    [i \in DOMAIN m.unmergedD2Concepts |->
        [label |-> m.unmergedD2Concepts[i].label, sourceDataset |-> "dataset2",
         metadata |-> "orphan",
         d1Ids |-> <<>>, d2Ids |-> m.unmergedD2Concepts[i].d2Ids]]

(***************************************************************************)
(* The Venn finalizer (audit-generate-venn), by concept membership.        *)
(***************************************************************************)
NoSummary == [totalD1Coverage |-> 0, totalD2Coverage |-> 0]

NoVenn ==
    [present |-> FALSE, scored |-> FALSE,
     uniqueToD1 |-> <<>>, aligned |-> <<>>, uniqueToD2 |-> <<>>, summary |-> NoSummary]

\* let tesseractCells = []; if (tesseractResponse.ok) tesseractCells = result?.cells || []
TesseractCells(outcome) == IF outcome = "ok" THEN <<"cell">> ELSE <<>>

RECURSIVE Flat(_)
Flat(ss) == IF ss = <<>> THEN <<>> ELSE Head(ss) \o Flat(Tail(ss))

\* a request body with the two element counts exchanged
VennRequestSwapped(inp, m, cells) ==
    [mergedConcepts     |-> m.mergedConcepts,
     unmergedD1Concepts |-> m.unmergedD1Concepts,
     unmergedD2Concepts |-> m.unmergedD2Concepts,
     tesseractCells     |-> cells,
     d1Count            |-> Len(inp.d2Elements),
     d2Count            |-> Len(inp.d1Elements)]

\* the body of the generate-venn request
VennRequest(inp, m, cells) ==
    [mergedConcepts     |-> m.mergedConcepts,
     unmergedD1Concepts |-> m.unmergedD1Concepts,
     unmergedD2Concepts |-> m.unmergedD2Concepts,
     tesseractCells     |-> cells,
     d1Count            |-> Len(inp.d1Elements),
     d2Count            |-> Len(inp.d2Elements)]

\* the share of count that part is, as a percentage; 0 of an empty dataset
Coverage(part, count) == IF count = 0 THEN 0 ELSE (100 * part) \div count

\* the D1 and D2 ids of the merged concepts that have ids of both datasets
RECURSIVE AlignedOf(_)
AlignedOf(mc) ==
    IF mc = <<>> THEN [d1 |-> <<>>, d2 |-> <<>>]
    ELSE LET rest == AlignedOf(Tail(mc))
             c    == Head(mc)
         IN  IF c.d1Ids # <<>> /\ c.d2Ids # <<>>
             THEN [d1 |-> c.d1Ids \o rest.d1, d2 |-> c.d2Ids \o rest.d2]
             ELSE rest

\* an element is aligned when its concept has ids of both datasets
VennFinalize(req) ==
    LET mc == req.mergedConcepts
    IN  [present    |-> TRUE,
         scored     |-> req.tesseractCells # <<>>,
         summary    |-> [totalD1Coverage |-> Coverage(Len(AlignedOf(mc).d1), req.d1Count),
                         totalD2Coverage |-> Coverage(Len(AlignedOf(mc).d2), req.d2Count)],
         aligned    |-> Flat([i \in DOMAIN mc |->
                                IF mc[i].d1Ids # <<>> /\ mc[i].d2Ids # <<>>
                                THEN mc[i].d1Ids \o mc[i].d2Ids ELSE <<>>]),
         uniqueToD1 |-> Flat([i \in DOMAIN mc |->
                                IF mc[i].d2Ids = <<>> THEN mc[i].d1Ids ELSE <<>>])
                        \o Flat([i \in DOMAIN req.unmergedD1Concepts |->
                                   req.unmergedD1Concepts[i].d1Ids]),
         uniqueToD2 |-> Flat([i \in DOMAIN mc |->
                                IF mc[i].d1Ids = <<>> THEN mc[i].d2Ids ELSE <<>>])
                        \o Flat([i \in DOMAIN req.unmergedD2Concepts |->
                                   req.unmergedD2Concepts[i].d2Ids])]

(***************************************************************************)
(* runPipeline, resumption by resumption.                                  *)
(***************************************************************************)
PipeIdle ==
    /\ isRunning = FALSE
    /\ progress = IdleProgress
    /\ error = "null"
    /\ abortRef = FALSE
    /\ sessionStatus = "pending"
    /\ pc = [r \in Runs |-> "idle"]
    /\ input = [r \in Runs |-> [d1Elements |-> <<>>, d2Elements |-> <<>>]]
    /\ nodeIdx = [r \in Runs |-> 0]
    /\ inflight = [r \in Runs |-> {}]
    /\ extracted = [r \in Runs |-> [d1 |-> "none", d2 |-> "none", merge |-> "none",
                                    tesseract |-> "none", venn |-> "none"]]
    /\ events = [r \in Runs |-> <<>>]
    /\ calls = [r \in Runs |-> <<>>]
    /\ nodes = <<>>
    /\ edges = <<>>
    /\ writeFaults = 0
    /\ allNodes = [r \in Runs |-> [defined |-> FALSE, nodes |-> <<>>]]
    /\ mergeResult = [r \in Runs |-> NoMergeResult]
    /\ conceptIdx = [r \in Runs |-> 0]
    /\ writes = [r \in Runs |-> <<>>]
    /\ venn = [r \in Runs |-> NoVenn]

ElementCount(inp) == Len(inp.d1Elements) + Len(inp.d2Elements)

\* runPipeline(input) up to its first await
Start(r) ==
    /\ pc[r] = "idle"
    /\ \E inp \in PipelineInputs :
          /\ input' = [input EXCEPT ![r] = inp]
          /\ pc' = [pc EXCEPT ![r] = IF ElementCount(inp) > 0 THEN "await_node"
                                     ELSE "await_session_running"]
    /\ isRunning' = TRUE
    /\ error' = "null"
    /\ abortRef' = FALSE
    /\ SetProgress(r, "creating_nodes")
    /\ UNCHANGED <<sessionStatus, nodeIdx, inflight, extracted, calls>>
    /\ UNCHANGED <<graphVars, graphRunVars>>
    /\ UNCHANGED <<mergeVars, extractVars, parseVars>>

\* a call of runPipeline by a caller that serializes the runs: one run after
\* the other
RunPipeline(r) ==
    /\ \A q \in Runs : q < r => pc[q] = "done"
    /\ Start(r)

\* a call of runPipeline at any time: nothing in the hook refuses a call while
\* an earlier run is still active
RunPipelineAgain(r) ==
    /\ \A q \in Runs : q < r => pc[q] # "idle"
    /\ Start(r)

\* the upsert loop reporting creating_nodes again after every element
NodeUpsertedReporting(r, ok) ==
    /\ pc[r] = "await_node"
    /\ nodeIdx' = [nodeIdx EXCEPT ![r] = @ + 1]
    /\ pc' = [pc EXCEPT ![r] = IF nodeIdx[r] + 1 < ElementCount(input[r])
                               THEN "await_node" ELSE "await_session_running"]
    /\ SetProgress(r, "creating_nodes")
    /\ UNCHANGED <<isRunning, error, abortRef, sessionStatus>>
    /\ UNCHANGED <<input, inflight, extracted, calls>>
    /\ UNCHANGED <<graphVars, graphRunVars>>
    /\ UNCHANGED <<mergeVars, extractVars, parseVars>>

\* an element-node upsert returns (its error is only logged); next element, or
\* after the last one the session update
NodeUpserted(r, ok) ==
    /\ pc[r] = "await_node"
    /\ LET n    == nodeIdx[r] + 1
           nd1  == Len(input[r].d1Elements)
           side == IF n <= nd1 THEN "d1" ELSE "d2"
           id   == IF n <= nd1 THEN input[r].d1Elements[n]
                   ELSE input[r].d2Elements[n - nd1]
       IN  /\ nodes' = IF ok THEN UpsertNode(nodes, ElementRow(id, side)) ELSE nodes
           /\ writes' = [writes EXCEPT ![r] = Append(@, Write("element", id, "", ok))]
    /\ writeFaults' = writeFaults + Failed(ok)
    /\ nodeIdx' = [nodeIdx EXCEPT ![r] = @ + 1]
    /\ pc' = [pc EXCEPT ![r] = IF nodeIdx[r] + 1 < ElementCount(input[r])
                               THEN "await_node" ELSE "await_session_running"]
    /\ UNCHANGED <<hookVars, input, inflight, extracted, events, calls>>
    /\ UNCHANGED <<edges, allNodes, mergeResult, conceptIdx, venn>>
    /\ UNCHANGED <<mergeVars, extractVars, parseVars>>

\* the session update to "running" returns; abort check; both extractions are requested
SessionRunningUpdated(r, ok) ==
    /\ pc[r] = "await_session_running"
    /\ sessionStatus' = IF ok THEN "running" ELSE sessionStatus
    /\ writes' = [writes EXCEPT ![r] = Append(@, Write("session", "running", "", ok))]
    /\ writeFaults' = writeFaults + Failed(ok)
    /\ IF abortRef
       THEN /\ Catch(r, "Aborted", events[r])
            /\ UNCHANGED <<inflight, calls>>
       ELSE /\ SetProgress(r, "extracting_d1")
            /\ calls' = [calls EXCEPT ![r] = @ \o <<Issue("extract_d1"), Issue("extract_d2")>>]
            /\ inflight' = [inflight EXCEPT ![r] = {"d1", "d2"}]
            /\ pc' = [pc EXCEPT ![r] = "await_extract"]
            /\ UNCHANGED error
    /\ UNCHANGED <<isRunning, abortRef, input, nodeIdx, extracted>>
    /\ UNCHANGED <<nodes, edges, allNodes, mergeResult, conceptIdx, venn>>
    /\ UNCHANGED <<mergeVars, extractVars, parseVars>>

\* the checks of the responses without those of d1Result.success / d2Result.success
ExtractErrorUnchecked(res) ==
    CASE res.d1 = "http_error" -> "D1 concept extraction failed"
      [] res.d2 = "http_error" -> "D2 concept extraction failed"
      [] OTHER                 -> "null"

\* the checks of d1Response / d1Result, then of d2Response / d2Result
ExtractError(res) ==
    CASE res.d1 = "http_error" -> "D1 concept extraction failed"
      [] res.d1 = "no_success" -> "D1 extraction error"
      [] res.d2 = "http_error" -> "D2 concept extraction failed"
      [] res.d2 = "no_success" -> "D2 extraction error"
      [] OTHER                 -> "null"

\* a join that does not wait for the other request
JoinedEarly(left) == TRUE

\* Promise.all has settled for the run: nothing is in flight any more
Joined(left) == left = {}

\* one extraction fetch settles.  Promise.all rejects with the first rejection
\* and resolves when both have resolved; a fetch that settles after the run has
\* left the await changes nothing.
ExtractionSettles(r, side, outcome) ==
    /\ side \in inflight[r]
    /\ inflight' = [inflight EXCEPT ![r] = @ \ {side}]
    /\ LET res    == [extracted[r] EXCEPT ![side] = outcome]
           logged == Append(calls[r], Return("extract_" \o side))
       IN  /\ extracted' = [extracted EXCEPT ![r] = res]
           /\ IF pc[r] # "await_extract"
              THEN /\ calls' = [calls EXCEPT ![r] = logged]
                   /\ UNCHANGED <<pc, progress, error, events>>
              ELSE IF outcome = "throw"
              THEN /\ Catch(r, "Failed to fetch", events[r])
                   /\ calls' = [calls EXCEPT ![r] = logged]
              ELSE IF ~Joined(inflight[r] \ {side})
              THEN /\ calls' = [calls EXCEPT ![r] = logged]
                   /\ UNCHANGED <<pc, progress, error, events>>
              ELSE IF ExtractError(res) # "null"
              THEN /\ Catch(r, ExtractError(res), events[r])
                   /\ calls' = [calls EXCEPT ![r] = logged]
              ELSE Advance(r, "merging_concepts", logged, <<Issue("merge")>>,
                           "await_merge")
    /\ UNCHANGED <<isRunning, abortRef, sessionStatus, input, nodeIdx>>
    /\ UNCHANGED <<graphVars, graphRunVars>>
    /\ UNCHANGED <<mergeVars, extractVars, parseVars>>

\* the merge fetch settles; its checks; then the graph phase starts by reading
\* the nodes of the session
MergeSettles(r, outcome, result) ==
    /\ pc[r] = "await_merge"
    /\ extracted' = [extracted EXCEPT ![r].merge = outcome]
    /\ LET logged == Append(calls[r], Return("merge"))
       IN  CASE outcome = "throw" ->
                  /\ Catch(r, "Failed to fetch", events[r])
                  /\ calls' = [calls EXCEPT ![r] = logged]
                  /\ UNCHANGED mergeResult
             [] outcome = "http_error" ->
                  /\ Catch(r, "Merge concepts failed", events[r])
                  /\ calls' = [calls EXCEPT ![r] = logged]
                  /\ UNCHANGED mergeResult
             [] outcome = "no_success" ->
                  /\ Catch(r, "Merge error", events[r])
                  /\ calls' = [calls EXCEPT ![r] = logged]
                  /\ UNCHANGED mergeResult
             [] OTHER ->
                  /\ mergeResult' = [mergeResult EXCEPT ![r] = result]
                  /\ Advance(r, "building_graph", logged, <<>>, "await_nodes_read")
    /\ UNCHANGED <<isRunning, abortRef, sessionStatus, input, nodeIdx, inflight>>
    /\ UNCHANGED <<graphVars, allNodes, conceptIdx, writes, venn>>
    /\ UNCHANGED <<mergeVars, extractVars, parseVars>>

\* get_audit_graph_nodes_with_token returns: allNodes, undefined when it failed
NodesRead(r, ok) ==
    /\ pc[r] = "await_nodes_read"
    /\ allNodes' = [allNodes EXCEPT ![r] =
                       [defined |-> ok, nodes |-> IF ok THEN nodes ELSE <<>>]]
    /\ writes' = [writes EXCEPT ![r] = Append(@, Write("read", "nodes", "", ok))]
    /\ writeFaults' = writeFaults + Failed(ok)
    /\ pc' = [pc EXCEPT ![r] = "await_graph"]
    /\ UNCHANGED <<hookVars, input, nodeIdx, inflight, extracted, events, calls>>
    /\ UNCHANGED <<nodes, edges, mergeResult, conceptIdx, venn>>
    /\ UNCHANGED <<mergeVars, extractVars, parseVars>>

\* a concept loop that throws when the upsert of the concept node fails
ConceptWrittenFatal(r, nodeOk, edgeFails) ==
    /\ pc[r] = "await_graph"
    /\ conceptIdx[r] < Len(ConceptWrites(mergeResult[r]))
    /\ ~nodeOk
    /\ edgeFails = {}
    /\ writes' = [writes EXCEPT ![r] = Append(@, Write("concept", "", "", FALSE))]
    /\ writeFaults' = writeFaults + 1
    /\ conceptIdx' = [conceptIdx EXCEPT ![r] = @ + 1]
    /\ Catch(r, "Failed to create concept node", events[r])
    /\ UNCHANGED <<isRunning, abortRef, sessionStatus>>
    /\ UNCHANGED <<input, nodeIdx, inflight, extracted, calls>>
    /\ UNCHANGED <<nodes, edges, allNodes, mergeResult, venn>>
    /\ UNCHANGED <<mergeVars, extractVars, parseVars>>

\* the writes of one concept return: its node upsert and, when that gave a
\* node, one edge insert per element id whose node is in allNodes
ConceptWritten(r, nodeOk, edgeFails) ==
    /\ pc[r] = "await_graph"
    /\ conceptIdx[r] < Len(ConceptWrites(mergeResult[r]))
    /\ LET c       == ConceptWrites(mergeResult[r])[conceptIdx[r] + 1]
           target  == UpsertedId(nodes, ConceptRow(c))
           inserts == EdgeWrites(c.d1Ids, "defines", target, allNodes[r], edgeFails)
                      \o EdgeWrites(c.d2Ids, "implements", target, allNodes[r], edgeFails)
       IN  IF nodeOk
           THEN /\ edgeFails \subseteq { inserts[i].element : i \in DOMAIN inserts }
                /\ nodes' = UpsertNode(nodes, ConceptRow(c))
                /\ edges' = edges \o Inserted(inserts)
                /\ writes' = [writes EXCEPT ![r] =
                                 Append(@, Write("concept", c.label, "", TRUE))
                                 \o [i \in DOMAIN inserts |->
                                        Write("edge", inserts[i].element, c.label,
                                              inserts[i].ok)]]
                /\ writeFaults' = writeFaults + FailedCount(inserts)
           ELSE /\ edgeFails = {}
                /\ writes' = [writes EXCEPT ![r] =
                                 Append(@, Write("concept", c.label, "", FALSE))]
                /\ writeFaults' = writeFaults + 1
                /\ UNCHANGED <<nodes, edges>>
    /\ conceptIdx' = [conceptIdx EXCEPT ![r] = @ + 1]
    /\ UNCHANGED <<hookVars, runVars>>
    /\ UNCHANGED <<allNodes, mergeResult, venn>>
    /\ UNCHANGED <<mergeVars, extractVars, parseVars>>

\* the last graph write has returned (no write of the graph phase throws);
\* then the tesseract is requested
GraphBuilt(r) ==
    /\ pc[r] = "await_graph"
    /\ conceptIdx[r] = Len(ConceptWrites(mergeResult[r]))
    /\ Advance(r, "building_tesseract", calls[r], <<Issue("tesseract")>>, "await_tesseract")
    /\ UNCHANGED <<isRunning, abortRef, sessionStatus, input, nodeIdx, inflight, extracted>>
    /\ UNCHANGED <<graphVars, graphRunVars>>
    /\ UNCHANGED <<mergeVars, extractVars, parseVars>>

\* the tesseract fetch settles: a non-OK answer is logged and tolerated
TesseractSettles(r, outcome) ==
    /\ pc[r] = "await_tesseract"
    /\ extracted' = [extracted EXCEPT ![r].tesseract = outcome]
    /\ LET logged == Append(calls[r], Return("tesseract"))
       IN  IF outcome = "throw"
           THEN /\ Catch(r, "Failed to fetch", events[r])
                /\ calls' = [calls EXCEPT ![r] = logged]
           ELSE Advance(r, "generating_venn", logged, <<Issue("venn")>>, "await_venn")
    /\ UNCHANGED <<isRunning, abortRef, sessionStatus, input, nodeIdx, inflight>>
    /\ UNCHANGED <<graphVars, graphRunVars>>
    /\ UNCHANGED <<mergeVars, extractVars, parseVars>>

\* the venn fetch settles: its response is not looked at.  The finalizer has
\* stored its result when it answered with one.
VennSettles(r, outcome) ==
    /\ pc[r] = "await_venn"
    /\ calls' = [calls EXCEPT ![r] = Append(@, Return("venn"))]
    /\ extracted' = [extracted EXCEPT ![r].venn = outcome]
    /\ venn' = [venn EXCEPT ![r] =
                   IF outcome = "ok"
                   THEN VennFinalize(VennRequest(input[r], mergeResult[r],
                                                 TesseractCells(extracted[r].tesseract)))
                   ELSE NoVenn]
    /\ IF outcome = "throw"
       THEN Catch(r, "Failed to fetch", events[r])
       ELSE /\ pc' = [pc EXCEPT ![r] = "await_session_completed"]
            /\ UNCHANGED <<progress, error, events>>
    /\ UNCHANGED <<isRunning, abortRef, sessionStatus, input, nodeIdx, inflight>>
    /\ UNCHANGED <<graphVars, allNodes, mergeResult, conceptIdx, writes>>
    /\ UNCHANGED <<mergeVars, extractVars, parseVars>>

\* the session update to "completed" returns; setProgress(completed); finally
SessionCompletedUpdated(r, ok) ==
    /\ pc[r] = "await_session_completed"
    /\ sessionStatus' = IF ok THEN "completed" ELSE sessionStatus
    /\ writes' = [writes EXCEPT ![r] = Append(@, Write("session", "completed", "", ok))]
    /\ writeFaults' = writeFaults + Failed(ok)
    /\ SetProgress(r, "completed")
    /\ isRunning' = FALSE
    /\ pc' = [pc EXCEPT ![r] = "done"]
    /\ UNCHANGED <<error, abortRef, input, nodeIdx, inflight, extracted, calls>>
    /\ UNCHANGED <<nodes, edges, allNodes, mergeResult, conceptIdx, venn>>
    /\ UNCHANGED <<mergeVars, extractVars, parseVars>>

\* the session update to "failed" of the catch block returns; finally
SessionFailedUpdated(r, ok) ==
    /\ pc[r] = "await_session_failed"
    /\ sessionStatus' = IF ok THEN "failed" ELSE sessionStatus
    /\ writes' = [writes EXCEPT ![r] = Append(@, Write("session", "failed", "", ok))]
    /\ writeFaults' = writeFaults + Failed(ok)
    /\ isRunning' = FALSE
    /\ pc' = [pc EXCEPT ![r] = "done"]
    /\ UNCHANGED <<progress, error, abortRef, input, nodeIdx, inflight, extracted, events, calls>>
    /\ UNCHANGED <<nodes, edges, allNodes, mergeResult, conceptIdx, venn>>
    /\ UNCHANGED <<mergeVars, extractVars, parseVars>>

\* abort()
Abort ==
    /\ abortRef' = TRUE
    /\ UNCHANGED <<isRunning, progress, error, sessionStatus, runVars>>
    /\ UNCHANGED <<graphVars, graphRunVars>>
    /\ UNCHANGED <<mergeVars, extractVars, parseVars>>

vars == <<mergeVars, extractVars, parseVars, pipeVars>>

InitMerge == MergeRequested(InputConceptLists) /\ ExtractIdle /\ ParseIdle /\ PipeIdle
NextMerge == MergeHandler
SpecMerge == InitMerge /\ [][NextMerge]_vars

\* the first round's request: concepts of the two extractions with distinct
\* labels and disjoint ids (the scenario Auth [A,B], Log [C]; Impl [X], Misc [Y]),
\* any MaxRoundConcepts or fewer of them in any order
ScenarioConcepts ==
    { ExtractedConcept("Auth", "d1", <<"A", "B">>),
      ExtractedConcept("Log",  "d1", <<"C">>),
      ExtractedConcept("Impl", "d2", <<"X">>),
      ExtractedConcept("Misc", "d2", <<"Y">>) }

RoundInputs ==
    { cs \in SeqsUpTo(ScenarioConcepts, MaxRoundConcepts) \ {<<>>} :
          DistinctLabels(cs) }

InitRounds == MergeRequested(RoundInputs) /\ ExtractIdle /\ ParseIdle /\ PipeIdle
NextRounds == MergeHandler \/ NextRound
SpecRounds == InitRounds /\ [][NextRounds]_vars

InitExtract ==
    /\ extractRequest \in ExtractRequests
    /\ estatus = "pending"
    /\ modelReply = [kind |-> "none", text |-> <<>>, concepts |-> <<>>]
    /\ extractResponse = NoExtractResponse
    /\ MergeIdle
    /\ ParseIdle
    /\ PipeIdle
NextExtract == ExtractHandler
SpecExtract == InitExtract /\ [][NextExtract]_vars

InitParse ==
    /\ prose \in [pre : Affixes, json : JsonObjects \cup {<<>>}, suf : Affixes]
    /\ pstage = "input"
    /\ parsed = [ok |-> FALSE, value |-> <<>>]
    /\ MergeIdle
    /\ ExtractIdle
    /\ PipeIdle
NextParse == MergerParses \/ ExtractorParses
SpecParse == InitParse /\ [][NextParse]_vars

InitPipeline == PipeIdle /\ MergeIdle /\ ExtractIdle /\ ParseIdle

\* how a persistence call may return: it may fail while fewer than
\* MaxWriteFaults calls have failed
WriteOutcomes == IF writeFaults < MaxWriteFaults THEN BOOLEAN ELSE {TRUE}

\* the control flow of the runs: every fetch may fail, abort() may be called at
\* any time, a session update may fail; the graph writes succeed
NextPipeline ==
    \/ \E r \in Runs :
          \/ RunPipeline(r)
          \/ NodeUpserted(r, TRUE)
          \/ \E ok \in WriteOutcomes : SessionRunningUpdated(r, ok)
          \/ \E side \in {"d1", "d2"}, outcome \in FetchOutcomes :
                 ExtractionSettles(r, side, outcome)
          \/ \E outcome \in FetchOutcomes : MergeSettles(r, outcome, Split(input[r]))
          \/ NodesRead(r, TRUE)
          \/ ConceptWritten(r, TRUE, {})
          \/ GraphBuilt(r)
          \/ \E outcome \in ScorerOutcomes : TesseractSettles(r, outcome)
          \/ \E outcome \in ScorerOutcomes : VennSettles(r, outcome)
          \/ \E ok \in WriteOutcomes : SessionCompletedUpdated(r, ok)
          \/ \E ok \in WriteOutcomes : SessionFailedUpdated(r, ok)
    \/ Abort
SpecPipeline == InitPipeline /\ [][NextPipeline]_vars

ElementIdsOf(inp) == ToSet(inp.d1Elements) \cup ToSet(inp.d2Elements)

\* the graph and the Venn result of the runs: the fetches answer, the merge
\* answers with any of MergeResults, abort() is not called; node upserts, edge
\* inserts, the read of the nodes and session updates may fail
InitGraph == PipeIdle /\ MergeIdle /\ ExtractIdle /\ ParseIdle

NextGraph ==
    \E r \in Runs :
        \/ RunPipeline(r)
        \/ \E ok \in WriteOutcomes : NodeUpserted(r, ok)
        \/ \E ok \in WriteOutcomes : SessionRunningUpdated(r, ok)
        \/ \E side \in {"d1", "d2"} : ExtractionSettles(r, side, "ok")
        \/ \E result \in MergeResults(input[r]) : MergeSettles(r, "ok", result)
        \/ \E ok \in WriteOutcomes : NodesRead(r, ok)
        \/ \E nodeOk \in WriteOutcomes, edgeFails \in SUBSET ElementIdsOf(input[r]) :
               /\ writeFaults + Cardinality(edgeFails) <= MaxWriteFaults
               /\ ConceptWritten(r, nodeOk, edgeFails)
        \/ GraphBuilt(r)
        \/ \E outcome \in {"ok", "http_error"} : TesseractSettles(r, outcome)
        \/ VennSettles(r, "ok")
        \/ \E ok \in WriteOutcomes : SessionCompletedUpdated(r, ok)

SpecGraph == InitGraph /\ [][NextGraph]_vars

\* overlapping runs on one hook: runPipeline may be called while an earlier run
\* is active, abort() at any time; fetches and writes succeed
InitOverlap == PipeIdle /\ MergeIdle /\ ExtractIdle /\ ParseIdle

NextOverlap ==
    \/ \E r \in Runs :
          \/ RunPipelineAgain(r)
          \/ NodeUpserted(r, TRUE)
          \/ SessionRunningUpdated(r, TRUE)
          \/ \E side \in {"d1", "d2"} : ExtractionSettles(r, side, "ok")
          \/ MergeSettles(r, "ok", Split(input[r]))
          \/ NodesRead(r, TRUE)
          \/ ConceptWritten(r, TRUE, {})
          \/ GraphBuilt(r)
          \/ TesseractSettles(r, "ok")
          \/ VennSettles(r, "ok")
          \/ SessionCompletedUpdated(r, TRUE)
          \/ SessionFailedUpdated(r, TRUE)
    \/ Abort

SpecOverlap == InitOverlap /\ [][NextOverlap]_vars
(***************************************************************************)
(* Properties of one merge pass and of the rounds.                         *)
(***************************************************************************)
\* the ids of one side held by the concepts of a list
AllIds(cs, side) == UNION { IdSet(cs[i], side) : i \in DOMAIN cs }

\* C1: conservation in one merge pass: the sum of |d1Ids| over the output
\* concepts equals the sum over the input concepts, and the same for d2Ids,
\* whatever the labels, the id lists and the proposed merge groups are.
C1_ConservationOnePass ==
    mstatus = "done" =>
        /\ SumLen(mergeResponse.concepts, "d1") = SumLen(concepts, "d1")
        /\ SumLen(mergeResponse.concepts, "d2") = SumLen(concepts, "d2")

\* C2: conservation over the rounds: after the last round the D1 total and the
\* D2 total equal those of the first round's input, whatever groups and merged
\* labels the model picks in each round.
C2_ConservationOverRounds ==
    (mstatus = "done" /\ round = TotalRounds) =>
        /\ SumLen(mergeResponse.concepts, "d1") = SumLen(firstInput, "d1")
        /\ SumLen(mergeResponse.concepts, "d2") = SumLen(firstInput, "d2")

\* C3: no element is silently dropped by a merge pass: every id of an input
\* concept's d1Ids (d2Ids) is in the d1Ids (d2Ids) of some output concept.
C3_NoElementDropped ==
    mstatus = "done" =>
        \A side \in {"d1", "d2"} :
            AllIds(concepts, side) \subseteq AllIds(mergeResponse.concepts, side)

\* C4: exactly-one membership is preserved: when every id belongs to exactly one
\* input concept, every id belongs to exactly one output concept (the output id
\* sets are pairwise disjoint, no id is repeated inside a concept, none is lost).
C4_ExactlyOnePreserved ==
    (mstatus = "done" /\ ExactlyOneMembership(concepts)) =>
        /\ ExactlyOneMembership(mergeResponse.concepts)
        /\ \A side \in {"d1", "d2"} :
               AllIds(mergeResponse.concepts, side) = AllIds(concepts, side)

RECURSIVE ValidFrom(_, _, _)
\* validSources of every group of ms, the loop being in state st before them
ValidFrom(cs, ms, st) ==
    IF ms = <<>> THEN <<>>
    ELSE <<ResolveLabels(cs, Head(ms).sourceConcepts, st.mergedLabels, <<>>).validSources>>
         \o ValidFrom(cs, Tail(ms), ProcessGroup(cs, st, Head(ms)))

\* validSources of every group of the proposal, in proposal order
ValidSources(cs, ms) ==
    ValidFrom(cs, ms, [mergedLabels |-> {}, outputConcepts |-> <<>>, mergeLog |-> <<>>])

\* group i lists a label of key k
References(ms, i, k) ==
    \E n \in DOMAIN ms[i].sourceConcepts : ToLowerCase(ms[i].sourceConcepts[n]) = k

\* the group whose validSources are vs resolves the concept of key k
Resolves(vs, k) == \E n \in DOMAIN vs : ToLowerCase(vs[n].label) = k

\* ... and merges it into a merged concept
Absorbs(vs, k) == Len(vs) >= 2 /\ Resolves(vs, k)

KnownKeys(cs) == { ToLowerCase(cs[i].label) : i \in DOMAIN cs }

\* the keys of the labels a merge-log entry was merged from
LogKeys(e) == { ToLowerCase(e.from[n]) : n \in DOMAIN e.from }

\* C5 as stated: a label referenced by two groups is absorbed by the first of
\* them only, and a later group left with fewer than 2 valid members emits
\* nothing and its remaining member is in the output unchanged.
C5_FirstReferenceWins ==
    mstatus = "done" =>
        LET v == ValidSources(concepts, proposed)
        IN  \A i, j \in DOMAIN proposed : \A k \in KnownKeys(concepts) :
                (i < j /\ References(proposed, i, k) /\ References(proposed, j, k)) =>
                    /\ ~Absorbs(v[j], k)
                    /\ Len(v[j]) < 2 =>
                           \A n \in DOMAIN v[j] : v[j][n] \in ToSet(mergeResponse.concepts)

\* C5 (amended): a concept is absorbed by at most one group of a pass, the first
\* group that resolves it together with another valid member, and later groups
\* drop their reference to it; a group left with fewer than 2 valid members
\* emits no merged concept and no merge-log entry, and its remaining member is
\* unmarked: it is in the output unchanged unless a later group absorbs it.
\* No label is merged from by two entries of the merge log.
C5_FirstAbsorberWins ==
    mstatus = "done" =>
        LET v       == ValidSources(concepts, proposed)
            merging == { i \in DOMAIN proposed : Len(v[i]) >= 2 }
            gone    == { k \in KnownKeys(concepts) :
                             \E i \in DOMAIN proposed : Absorbs(v[i], k) }
        IN  /\ \A i, j \in DOMAIN proposed : \A k \in KnownKeys(concepts) :
                   (i < j /\ Absorbs(v[i], k)) => ~Resolves(v[j], k)
            /\ \A a, b \in DOMAIN mergeResponse.mergeLog :
                   a < b => LogKeys(mergeResponse.mergeLog[a])
                                \cap LogKeys(mergeResponse.mergeLog[b]) = {}
            /\ Len(mergeResponse.mergeLog) = Cardinality(merging)
            /\ mergeResponse.outputCount
                   = Cardinality(merging) + Len(PassThrough(concepts, gone))
            /\ \A j \in DOMAIN proposed :
                   Len(v[j]) = 1 =>
                       \/ v[j][1] \in ToSet(mergeResponse.concepts)
                       \/ \E l \in DOMAIN proposed :
                              l > j /\ Absorbs(v[l], ToLowerCase(v[j][1].label))

\* C5 witness: a label listed by two groups, absorbed by the first, which leaves
\* the second with one valid member, found unchanged in the output.
C5_Witness ==
    /\ mstatus = "done"
    /\ LET v == ValidSources(concepts, proposed)
       IN  \E i, j \in DOMAIN proposed : \E k \in KnownKeys(concepts) :
               /\ i < j
               /\ References(proposed, i, k)
               /\ References(proposed, j, k)
               /\ Absorbs(v[i], k)
               /\ Len(v[j]) = 1
               /\ v[j][1] \in ToSet(mergeResponse.concepts)
               /\ Len(mergeResponse.mergeLog) = 1

\* the ids the returned concepts list
ReturnedIds(resp) == UNION { ToSet(resp.concepts[i].elementIds) : i \in DOMAIN resp.concepts }

\* C6: whenever the extractor answers success, the union of the elementIds of
\* the returned concepts is exactly the set of ids of the input elements: no
\* input element is missing from every concept and no foreign id is present,
\* whatever JSON the model returned.
C6_CoverageAfterExtraction ==
    (estatus = "done" /\ extractResponse.success) =>
        ReturnedIds(extractResponse) = ToSet(extractRequest.elements)

\* the model call failed, or its output holds no concept list: no text, text
\* that does not parse even after brace recovery, or JSON without the field
NoConceptList(reply) ==
    \/ reply.kind # "ok"
    \/ reply.text = <<>>
    \/ ~ParseExtractText(reply.text).ok
    \/ ~HasPayload(ParseExtractText(reply.text).value)

\* C7: when the model call fails or its output cannot be turned into a concept
\* list, the extractor answers success=false without concepts; it never answers
\* success=true with an empty concept set for a non-empty input.
C7_FailureNotSwallowed ==
    estatus = "done" =>
        /\ NoConceptList(modelReply) =>
               (~extractResponse.success /\ extractResponse.concepts = <<>>)
        /\ (extractResponse.success /\ extractRequest.elements # <<>>) =>
               extractResponse.concepts # <<>>

\* what the stage that ran makes of a text
StageParse(stage, text) ==
    IF stage = "merge" THEN ParseMergeText(text) ELSE ParseExtractText(text)

NoBracePair(text) ==
    IndexOf(text, "{") = -1 \/ LastIndexOf(text, "}") <= IndexOf(text, "{")

\* C8: for every valid JSON object J and every text P, S around it, either
\* stage parses P+J+S to the value it parses J alone to; the substring from the
\* first "{" to the last "}" is taken only when the direct parse fails, and the
\* stage fails when the direct parse fails and there is no such pair.
C8_MalformedOutputRecovery ==
    pstage \in {"merge", "extract"} =>
        /\ prose.json # <<>> => parsed = StageParse(pstage, prose.json)
        /\ JSONParse(ModelText).ok => parsed = JSONParse(ModelText)
        /\ (~JSONParse(ModelText).ok /\ NoBracePair(ModelText)) => ~parsed.ok


(***************************************************************************)
(* Properties of the orchestrator.                                         *)
(***************************************************************************)
PhaseOrder ==
    <<"idle", "creating_nodes", "extracting_d1", "merging_concepts", "building_graph",
      "building_tesseract", "generating_venn", "completed">>

IsPrefix(s, t) == Len(s) <= Len(t) /\ \A i \in DOMAIN s : s[i] = t[i]

\* the phases of a run: idle, then the phases it reported
Phases(r) == <<"idle">> \o [i \in DOMAIN events[r] |-> events[r][i].phase]

\* the stage an edge-function request belongs to
StageOf(name) ==
    CASE name \in {"extract_d1", "extract_d2"} -> 1
      [] name = "merge"                        -> 2
      [] name = "tesseract"                    -> 3
      [] OTHER                                 -> 4

EdgeFunctions == {"extract_d1", "extract_d2", "merge", "tesseract", "venn"}

\* name was requested and has returned before position p of the call log
ReturnedBefore(log, name, p) ==
    \E i, j \in DOMAIN log :
        i < j /\ j < p /\ log[i] = Issue(name) /\ log[j] = Return(name)

\* C9: in every run the reported phases are a prefix of idle, creating_nodes,
\* extracting, merging_concepts, building_graph, building_tesseract,
\* generating_venn, completed (each at most once, in this order), optionally
\* followed by error as the last phase; nothing is reported after completed or
\* error; the request of a stage is issued only after the requests of the
\* stages before it have returned.
C9_PhaseStateMachine ==
    \A r \in Runs :
        LET ph == Phases(r)
            n  == Len(ph)
        IN  /\ \/ IsPrefix(ph, PhaseOrder)
               \/ ph[n] = "error" /\ IsPrefix(SubSeq(ph, 1, n - 1), PhaseOrder)
            /\ pc[r] = "done" => ph[n] \in {"completed", "error"}
            /\ \A p \in DOMAIN calls[r] :
                   calls[r][p][1] = "issue" =>
                       \A m \in EdgeFunctions :
                           StageOf(m) < StageOf(calls[r][p][2]) =>
                               ReturnedBefore(calls[r], m, p)

\* C9 witness: a run that went through every phase to completed, and a run
\* that ended in error after it had requested the merge
C9_Witness ==
    /\ pc[1] = "done"
    /\ Phases(1) = PhaseOrder
    /\ ReturnedBefore(calls[1], "venn", Len(calls[1]) + 1)
    /\ pc[2] = "done"
    /\ Phases(2)[Len(Phases(2))] = "error"
    /\ Issue("merge") \in ToSet(calls[2])

\* C10 as stated: over all progress events of one run, the one reporting error
\* included, the percentage never decreases and stays within 0..100.
C10_MonotonicProgress ==
    \A r \in Runs :
        /\ \A i \in DOMAIN events[r] : events[r][i].progress \in 0..100
        /\ \A i, j \in DOMAIN events[r] :
               i < j => events[r][i].progress <= events[r][j].progress

\* C10 (amended): over the progress events of one run the percentage stays
\* within 0..100 and never decreases from event to event, except that the
\* event reporting the transition to error, the last of the run, reports 0.
C10_MonotonicUntilError ==
    \A r \in Runs :
        /\ \A i \in DOMAIN events[r] :
               /\ events[r][i].progress \in 0..100
               /\ events[r][i].phase = "error" =>
                      (events[r][i].progress = 0 /\ i = Len(events[r]))
        /\ \A i, j \in DOMAIN events[r] :
               (i < j /\ events[r][j].phase # "error") =>
                   events[r][i].progress <= events[r][j].progress

\* C10 witness: a run that reported progress up to building_graph and then error
C10_Witness ==
    \E r \in Runs :
        LET e == events[r]
        IN  /\ Len(e) >= 5
            /\ e[Len(e)].phase = "error"
            /\ e[Len(e)].progress = 0
            /\ e[Len(e) - 1].phase = "building_graph"
            /\ e[Len(e) - 1].progress = 50

(***************************************************************************)
(* Cancellation, failure and the join of the two extractions.              *)
(***************************************************************************)
Last(seq) == seq[Len(seq)]

\* a run between its call and the end of its finally block
Active(r) == pc[r] \notin {"idle", "done"}

\* the requests of edge functions in a call log
Issued(log) == { i \in DOMAIN log : log[i][1] = "issue" }

IssuedOf(log, name) == { i \in DOMAIN log : log[i] = Issue(name) }

\* the awaits of the graph phase
GraphAwaits == {"await_nodes_read", "await_graph"}

\* the awaits up to the one of the tesseract answer
BeforeVenn ==
    {"await_node", "await_session_running", "await_extract", "await_merge",
     "await_nodes_read", "await_graph", "await_tesseract"}

\* no later run has begun: the hook's progress and error, and the status of the
\* session, are those run r left
Latest(r) == \A q \in Runs : q > r => pc[q] = "idle"

\* the catch block has asked for the session to be marked failed, and it is,
\* unless that update failed
MarkedFailed(r) ==
    /\ writes[r] # <<>>
    /\ Last(writes[r]).op = "session"
    /\ Last(writes[r]).key = "failed"
    /\ (Last(writes[r]).ok /\ Latest(r)) => sessionStatus = "failed"

\* the run has ended, its last reported phase the error phase
EndedInError(r) ==
    /\ pc[r] = "done"
    /\ events[r] # <<>>
    /\ Last(events[r]).phase = "error"

EndedCompleted(r) ==
    /\ pc[r] = "done"
    /\ events[r] # <<>>
    /\ Last(events[r]).phase = "completed"

\* C11 as stated: once abort() has been called during a run (abortRef is set
\* while the run is active), the run issues no further stage call and can end
\* only in the error phase, with the session marked failed.
C11_CooperativeCancellation ==
    [][\A r \in Runs :
          (abortRef /\ Active(r)) =>
              /\ Issued(calls'[r]) = Issued(calls[r])
              /\ pc'[r] = "done" => (EndedInError(r))' /\ (MarkedFailed(r))']_vars

\* C11, amended: the abort flag is read at the stage boundaries up to the one
\* before the Venn call.  A run that is before its Venn call when abort() has
\* been called issues no further stage call, starts no graph write unless the
\* graph phase was the one in flight, lets the call in flight return, and can
\* go on only to the catch block, which ends it in the error phase with the
\* update to failed requested.  A run that is already awaiting the Venn answer
\* or the update to completed is not cancelled: after the update it ends
\* completed.
C11_CancelBeforeVenn ==
    [][\A r \in Runs :
          (abortRef /\ Active(r)) =>
              /\ Issued(calls'[r]) = Issued(calls[r])
              /\ IsPrefix(calls[r], calls'[r])
              /\ pc[r] \notin GraphAwaits =>
                    /\ conceptIdx'[r] = conceptIdx[r]
                    /\ pc'[r] \notin GraphAwaits
              /\ pc[r] \in BeforeVenn => pc'[r] \in BeforeVenn \cup {"await_session_failed"}
              /\ pc[r] = "await_session_failed" =>
                    /\ pc'[r] \in {"await_session_failed", "done"}
                    /\ pc'[r] = "done" =>
                          /\ (EndedInError(r))'
                          /\ (MarkedFailed(r))'
                          /\ error' # "null"
                          /\ progress'.phase = "error"
              /\ pc[r] = "await_session_completed" =>
                    /\ pc'[r] \in {"await_session_completed", "done"}
                    /\ pc'[r] = "done" => (EndedCompleted(r))']_vars

\* a run aborted while the merge was in flight: the merge has returned, nothing
\* was requested after it, the run has ended with "Aborted" and the session failed
C11_Witness ==
    \E r \in Runs :
        /\ EndedInError(r)
        /\ abortRef
        /\ Last(events[r]).message = "Aborted"
        /\ calls[r] # <<>>
        /\ Last(calls[r]) = Return("merge")
        /\ IssuedOf(calls[r], "tesseract") = {}
        /\ sessionStatus = "failed"

\* how a request settles when it fails
Failures == {"throw", "http_error", "no_success"}

\* the messages thrown for a failed extraction and for a failed merge
ExtractionMessages ==
    {"Failed to fetch", "D1 concept extraction failed", "D1 extraction error",
     "D2 concept extraction failed", "D2 extraction error"}

MergeMessages == {"Failed to fetch", "Merge concepts failed", "Merge error"}

\* run r has gone to the catch block with one of msgs: it is in the error
\* phase, the message is the progress message and the error value, and once
\* the run has ended the update of the session to failed has been requested
FailedWith(r, msgs) ==
    /\ pc[r] \in {"await_session_failed", "done"}
    /\ events[r] # <<>>
    /\ Last(events[r]).phase = "error"
    /\ Last(events[r]).message \in msgs
    /\ Latest(r) => /\ progress = Last(events[r])
                    /\ error = Last(events[r]).message
    /\ pc[r] = "done" => MarkedFailed(r)

\* C12: when an extraction request or the merge request has failed (rejected,
\* non-OK status, or success = false), the run issues no call of a later stage
\* and writes nothing of the graph phase; it goes to the catch block as soon
\* as the join of the extractions settles (at once for the merge): phase error
\* with the failure's message as progress message and error value, and the
\* session update to failed issued (status failed when that update succeeds).
C12_FatalFailurePropagation ==
    \A r \in Runs :
        /\ (extracted[r].d1 \in Failures \/ extracted[r].d2 \in Failures) =>
              /\ IssuedOf(calls[r], "merge") = {}
              /\ IssuedOf(calls[r], "tesseract") = {}
              /\ IssuedOf(calls[r], "venn") = {}
              /\ conceptIdx[r] = 0
              /\ ~allNodes[r].defined
              /\ \/ pc[r] = "await_extract" /\ inflight[r] # {}
                 \/ FailedWith(r, ExtractionMessages)
        /\ extracted[r].merge \in Failures =>
              /\ IssuedOf(calls[r], "tesseract") = {}
              /\ IssuedOf(calls[r], "venn") = {}
              /\ conceptIdx[r] = 0
              /\ ~allNodes[r].defined
              /\ FailedWith(r, MergeMessages)

\* both kinds have happened: a run ended by a merge answering success = false
\* and a run ended by a non-OK D2 extraction, the session marked failed
C12_Witness ==
    /\ extracted[1].merge = "no_success"
    /\ pc[1] = "done"
    /\ extracted[2].d1 = "ok"
    /\ extracted[2].d2 = "http_error"
    /\ pc[2] = "done"
    /\ error = "D2 concept extraction failed"
    /\ sessionStatus = "failed"

\* the positions of log entries
IndexOfEntry(log, e) == CHOOSE i \in DOMAIN log : log[i] = e

Before(log, e, f) ==
    /\ e \in ToSet(log)
    /\ f \in ToSet(log)
    /\ IndexOfEntry(log, e) < IndexOfEntry(log, f)

\* C13: the two extraction requests are issued together, before either answer
\* is awaited: no answer is in the log before both requests.  The merge request
\* is issued only after both answers have arrived, in whichever order, and both
\* report success.  If either extraction failed the merge is never issued and
\* the run is in, or on its way to, the error phase.
C13_ExtractionJoin ==
    \A r \in Runs :
        LET log == calls[r]
        IN  /\ Issue("extract_d1") \in ToSet(log) <=> Issue("extract_d2") \in ToSet(log)
            /\ \A side \in {"d1", "d2"} :
                  Return("extract_" \o side) \in ToSet(log) =>
                      /\ Before(log, Issue("extract_d1"), Return("extract_" \o side))
                      /\ Before(log, Issue("extract_d2"), Return("extract_" \o side))
            /\ Issue("merge") \in ToSet(log) =>
                  /\ Before(log, Return("extract_d1"), Issue("merge"))
                  /\ Before(log, Return("extract_d2"), Issue("merge"))
                  /\ extracted[r].d1 = "ok"
                  /\ extracted[r].d2 = "ok"
            /\ (extracted[r].d1 \in Failures \/ extracted[r].d2 \in Failures) =>
                  /\ Issue("merge") \notin ToSet(log)
                  /\ \/ pc[r] = "await_extract" /\ inflight[r] # {}
                     \/ pc[r] = "await_session_failed"
                     \/ EndedInError(r)

\* both completion orders: a run in which D2 answered before D1 and the merge
\* was then requested, and a run in which D1 answered first and D2's answer,
\* success = false, ended it in error without a merge request
C13_Witness ==
    /\ Before(calls[1], Return("extract_d2"), Return("extract_d1"))
    /\ Before(calls[1], Return("extract_d1"), Issue("merge"))
    /\ pc[1] = "done"
    /\ Before(calls[2], Return("extract_d1"), Return("extract_d2"))
    /\ extracted[2].d1 = "ok"
    /\ extracted[2].d2 = "no_success"
    /\ Issue("merge") \notin ToSet(calls[2])
    /\ EndedInError(2)

\* the events of a run that report a terminal phase
Terminal(r) == { i \in DOMAIN events[r] : events[r][i].phase \in {"completed", "error"} }

StageCalls == {"extract_d1", "extract_d2", "merge", "tesseract", "venn"}

\* C14: a run reports at most one terminal event, completed (progress 100) or
\* error (with a message), and it is its last event; a run that has ended has
\* reported exactly one.  No stage call (extract D1, extract D2, merge,
\* tesseract, Venn) is issued twice in a run.
C14_SingleTerminalOutcome ==
    \A r \in Runs :
        /\ Cardinality(Terminal(r)) <= 1
        /\ Terminal(r) \subseteq {Len(events[r])}
        /\ pc[r] = "done" => Cardinality(Terminal(r)) = 1
        /\ \A i \in Terminal(r) :
              /\ events[r][i].phase = "completed" => events[r][i].progress = 100
              /\ events[r][i].phase = "error" => events[r][i].message # ""
        /\ \A name \in StageCalls : Cardinality(IssuedOf(calls[r], name)) <= 1

\* a run that ended completed after issuing each of the five calls once, and a
\* run that ended in error after its merge request
C14_Witness ==
    /\ EndedCompleted(1)
    /\ \A name \in StageCalls : Cardinality(IssuedOf(calls[1], name)) = 1
    /\ EndedInError(2)
    /\ Cardinality(IssuedOf(calls[2], "merge")) = 1
    /\ Cardinality(Terminal(2)) = 1

(***************************************************************************)
(* Properties of the graph and of the Venn result.                         *)
(***************************************************************************)
\* the graph phase of run r is over
GraphDone(r) ==
    pc[r] \in {"await_tesseract", "await_venn", "await_session_completed", "done"}

\* the persistence calls of run r that failed
FailedWrites(r) == { i \in DOMAIN writes[r] : ~writes[r][i].ok }

\* the element ids of a concept
IdsOf(c) == ToSet(c.d1Ids) \cup ToSet(c.d2Ids)

\* run r has attempted the edge from the node of id to the concept labelled l
EdgeAttempted(r, id, l) ==
    \E i \in DOMAIN writes[r] :
        writes[r][i].op = "edge" /\ writes[r][i].key = id /\ writes[r][i].of = l

\* C15: a failed element-node upsert, concept-node upsert, edge insert or
\* session update never takes a run to the catch block: no run reports error,
\* and a run that has ended has reported every phase, issued each stage call
\* and ended completed.  After the graph phase the edge of an element to its
\* concept has been attempted exactly when the concept's node was written and
\* the element has a node among those read; an element whose upsert succeeded
\* has one, so a failed concept node costs only that concept's edges and a
\* failed element node only that element's.
C15_WriteFailuresNonFatal ==
    \A r \in Runs :
        /\ pc[r] # "await_session_failed"
        /\ \A i \in DOMAIN events[r] : events[r][i].phase # "error"
        /\ pc[r] = "done" =>
              /\ EndedCompleted(r)
              /\ Phases(r) = PhaseOrder
              /\ \A name \in StageCalls : Cardinality(IssuedOf(calls[r], name)) = 1
        /\ GraphDone(r) =>
              LET cw == ConceptWrites(mergeResult[r])
              IN  /\ conceptIdx[r] = Len(cw)
                  /\ \A k \in DOMAIN cw :
                        /\ \E i \in DOMAIN writes[r] :
                               writes[r][i].op = "concept" /\ writes[r][i].key = cw[k].label
                        /\ \A id \in IdsOf(cw[k]) :
                               EdgeAttempted(r, id, cw[k].label) <=>
                                   /\ Write("concept", cw[k].label, "", TRUE) \in ToSet(writes[r])
                                   /\ FindNode(allNodes[r], id) # 0
                  /\ \A id \in ElementIdsOf(input[r]) :
                        (Write("element", id, "", TRUE) \in ToSet(writes[r])
                            /\ allNodes[r].defined) => FindNode(allNodes[r], id) # 0

\* a run whose upsert of element A failed has ended completed; it attempted the
\* edge of X to the concept holding both, and not the edge of A
C15_Witness ==
    \E r \in Runs :
        /\ EndedCompleted(r)
        /\ allNodes[r].defined
        /\ FindNode(allNodes[r], "A") = 0
        /\ Write("element", "A", "", FALSE) \in ToSet(writes[r])
        /\ Write("concept", "Authentication", "", TRUE) \in ToSet(writes[r])
        /\ ~EdgeAttempted(r, "A", "Authentication")
        /\ EdgeAttempted(r, "X", "Authentication")

ElementTypes == {"d1_element", "d2_element"}

\* the element nodes of the session that stand for element id
ElementNodesOf(id) ==
    { i \in DOMAIN nodes :
        nodes[i].nodeType \in ElementTypes /\ nodes[i].sourceElementIds = <<id>> }

\* C16: the session never holds two nodes of the same sourceElementIds, so
\* never two element nodes of one element id, however often the element-node
\* phase has been executed; when a run has executed the phase, every element
\* whose upsert it made has exactly one element node, of its dataset.
C16_IdempotentElementUpsert ==
    /\ \A i, j \in DOMAIN nodes :
          (nodes[i].sourceElementIds = nodes[j].sourceElementIds
              \/ nodes[i].id = nodes[j].id) => i = j
    /\ \A id \in {"A", "B", "X"} : Cardinality(ElementNodesOf(id)) <= 1
    /\ \A r \in Runs :
          pc[r] = "await_session_running" =>
              /\ \A k \in DOMAIN input[r].d1Elements :
                    LET id == input[r].d1Elements[k]
                    IN  Write("element", id, "", TRUE) \in ToSet(writes[r]) =>
                            /\ Cardinality(ElementNodesOf(id)) = 1
                            /\ \A i \in ElementNodesOf(id) : nodes[i].nodeType = "d1_element"
              /\ \A k \in DOMAIN input[r].d2Elements :
                    LET id == input[r].d2Elements[k]
                    IN  Write("element", id, "", TRUE) \in ToSet(writes[r]) =>
                            /\ Cardinality(ElementNodesOf(id)) = 1
                            /\ \A i \in ElementNodesOf(id) : nodes[i].nodeType = "d2_element"

\* the phase executed a second time for the same elements on the same session:
\* all upserts of both runs succeeded and each element has its one node
C16_Witness ==
    /\ pc[1] = "done"
    /\ pc[2] = "await_session_running"
    /\ input[1] = input[2]
    /\ input[2].d1Elements = <<"A", "B">>
    /\ FailedWrites(1) = {}
    /\ FailedWrites(2) = {}
    /\ \A id \in {"A", "B", "X"} : Cardinality(ElementNodesOf(id)) = 1

\* run r is the only run the session has seen
FreshSession(r) == \A q \in Runs : q # r => pc[q] = "idle"

\* run r has ended completed and none of its persistence calls failed
CompletedClean(r) == EndedCompleted(r) /\ FailedWrites(r) = {}

\* the concept nodes of the session that stand for concept c
ConceptNodesOf(c) ==
    { i \in DOMAIN nodes :
        nodes[i].nodeType = "concept" /\ nodes[i].sourceElementIds = c.d1Ids \o c.d2Ids }

\* C19 as stated: after a run on a fresh session whose writes all succeeded the
\* session holds exactly one element node per input element and exactly one
\* concept node per merged or unmerged concept, and nothing else; the concept
\* node of a single-element concept is another node than the element's.
C19_NodeCardinality ==
    \A r \in Runs :
        (CompletedClean(r) /\ FreshSession(r)) =>
            LET cw == ConceptWrites(mergeResult[r])
            IN  /\ Len(nodes) = ElementCount(input[r]) + Len(cw)
                /\ \A id \in ElementIdsOf(input[r]) : Cardinality(ElementNodesOf(id)) = 1
                /\ \A k \in DOMAIN cw :
                      /\ Cardinality(ConceptNodesOf(cw[k])) = 1
                      /\ \A id \in IdsOf(cw[k]) :
                            ConceptNodesOf(cw[k]) \cap ElementNodesOf(id) = {}

\* the node of the session with this id
NodeById(id) == CHOOSE n \in ToSet(nodes) : n.id = id

\* C18 as stated: every edge runs from an element node to a concept node, two
\* different nodes, and is of type defines exactly when its source is a D1
\* element and implements exactly when it is a D2 element.
C18_EdgeDirection ==
    \A i \in DOMAIN edges :
        LET e == edges[i]
        IN  /\ \E n \in ToSet(nodes) : n.id = e.source
            /\ \E n \in ToSet(nodes) : n.id = e.target
            /\ NodeById(e.source).nodeType \in ElementTypes
            /\ NodeById(e.target).nodeType = "concept"
            /\ e.source # e.target
            /\ e.edgeType = "defines" <=> NodeById(e.source).nodeType = "d1_element"
            /\ e.edgeType = "implements" <=> NodeById(e.source).nodeType = "d2_element"

\* the edges from the element node of id to the concept node of c
EdgesOf(id, c) ==
    { i \in DOMAIN edges :
        /\ \E n \in ElementNodesOf(id) : nodes[n].id = edges[i].source
        /\ \E n \in ConceptNodesOf(c) : nodes[n].id = edges[i].target }

\* C17 as stated: after a run on a fresh session has completed with all writes
\* succeeding, every element id of every concept of its merge result has
\* exactly one edge from the element's node to the concept's node, and every
\* edge of the session is the edge of such a membership.
C17_EdgeCorrespondence ==
    \A r \in Runs :
        (CompletedClean(r) /\ FreshSession(r)
            /\ mergeResult[r] \in CoveringResults(input[r])) =>
            LET cw == ConceptWrites(mergeResult[r])
            IN  /\ \A k \in DOMAIN cw : \A id \in IdsOf(cw[k]) :
                      Cardinality(EdgesOf(id, cw[k])) = 1
                /\ \A i \in DOMAIN edges :
                      \E k \in DOMAIN cw : \E id \in IdsOf(cw[k]) : i \in EdgesOf(id, cw[k])

\* how often id is listed in a bucket
Occurrences(bucket, id) == Cardinality({ i \in DOMAIN bucket : bucket[i] = id })

\* C20 as stated: in the Venn result of a run every D1 element is listed once,
\* in uniqueToD1 or in aligned, and every D2 element once, in uniqueToD2 or in
\* aligned, whatever the merge answered.
C20_VennCompleteness ==
    \A r \in Runs :
        venn[r].present =>
            /\ \A k \in DOMAIN input[r].d1Elements :
                  Occurrences(venn[r].uniqueToD1 \o venn[r].aligned,
                              input[r].d1Elements[k]) = 1
            /\ \A k \in DOMAIN input[r].d2Elements :
                  Occurrences(venn[r].uniqueToD2 \o venn[r].aligned,
                              input[r].d2Elements[k]) = 1

(***************************************************************************)
(* The scorer, the Venn call and completion.                               *)
(***************************************************************************)
\* the tesseract stage was unavailable: a non-OK answer or a rejected fetch
Unavailable == {"http_error", "throw"}

\* C25 as stated: when the tesseract stage was unavailable the run still issues
\* the Venn call, with an empty cell list, and the tesseract stage does not end
\* it in error: an error of the run is an abort at the boundary or a Venn fetch
\* that failed.
C25_ScorerUnavailableTolerated ==
    \A r \in Runs :
        extracted[r].tesseract \in Unavailable =>
            /\ TesseractCells(extracted[r].tesseract) = <<>>
            /\ \/ IssuedOf(calls[r], "venn") # {}
               \/ Last(events[r]).message = "Aborted"
            /\ Last(events[r]).phase = "error" =>
                  \/ Last(events[r]).message = "Aborted"
                  \/ extracted[r].venn = "throw"

\* C29 as stated: a run reports completed, and marks the session completed,
\* only if its Venn call answered successfully.
C29_CompletedImpliesVenn ==
    \A r \in Runs :
        /\ EndedCompleted(r) => extracted[r].venn = "ok"
        /\ (writes[r] # <<>> /\ Last(writes[r]).op = "session"
               /\ Last(writes[r]).key = "completed") => extracted[r].venn = "ok"

RECURSIVE ElementKeys(_)
\* the element ids of the element-node upserts in a log of persistence calls
ElementKeys(ws) ==
    IF ws = <<>> THEN <<>>
    ELSE (IF Head(ws).op = "element" THEN <<Head(ws).key>> ELSE <<>>)
         \o ElementKeys(Tail(ws))

\* run r is in, or has ended after, the catch block
InError(r) ==
    /\ pc[r] \in {"await_session_failed", "done"}
    /\ events[r] # <<>>
    /\ Last(events[r]).phase = "error"

\* the error of run r is a failed extraction, a failed merge or a cancellation
EndedBy(r) ==
    \/ extracted[r].d1 \in Failures
    \/ extracted[r].d2 \in Failures
    \/ extracted[r].merge \in Failures
    \/ Last(events[r]).message = "Aborted"

\* C26 as stated: the element-node upserts of a run are issued one after the
\* other, the D1 elements in input order and then the D2 elements in input
\* order, all of them before the first extraction request; when extraction,
\* merge or cancellation ends the run in error every element whose node it
\* wrote still has its element node.
C26_EagerElementNodes ==
    \A r \in Runs :
        /\ IsPrefix(ElementKeys(writes[r]), input[r].d1Elements \o input[r].d2Elements)
        /\ calls[r] # <<>> =>
              ElementKeys(writes[r]) = input[r].d1Elements \o input[r].d2Elements
        /\ (InError(r) /\ Latest(r) /\ EndedBy(r)) =>
              \A id \in ElementIdsOf(input[r]) :
                  Write("element", id, "", TRUE) \in ToSet(writes[r]) =>
                      ElementNodesOf(id) # {}

(***************************************************************************)
(* abort() under overlapping runs.                                         *)
(***************************************************************************)
\* the awaits after which runPipeline reads the abort flag
BoundaryAwaits ==
    {"await_session_running", "await_extract", "await_merge", "await_graph",
     "await_tesseract"}

\* run r has gone to the catch block by the abort check
Cancelled(r) ==
    /\ pc[r] = "await_session_failed"
    /\ Last(events[r]).message = "Aborted"

\* a step in which runPipeline is called
Called == \E r \in Runs : pc[r] = "idle" /\ pc'[r] # "idle"

\* C28 as stated: while a run to which an abort request was addressed (the flag
\* was set during it) is still before its Venn call, no step clears the flag,
\* a call of runPipeline included, and the run is cancelled with message
\* Aborted when it comes to its next stage boundary.
C28_AbortNotLost ==
    [][\A r \in Runs :
          (abortRef /\ pc[r] \in BeforeVenn) =>
              /\ abortRef' \/ (Cancelled(r))'
              /\ (pc[r] \in BoundaryAwaits /\ pc'[r] # pc[r]) => (Cancelled(r))']_vars

\* C28, amended: abort() sets one flag for the hook and every call of
\* runPipeline clears it, nothing else does.  A run that comes to a stage
\* boundary before its Venn call while the flag is set is cancelled with
\* message Aborted; an abort request followed by a call of runPipeline before
\* that boundary is lost: the run passes the boundary when the flag is clear.
C28_AbortUntilNextCall ==
    [][/\ Called => ~abortRef'
       /\ (abortRef /\ ~abortRef') => Called
       /\ \A r \in Runs :
             (pc[r] \in BoundaryAwaits /\ pc'[r] # pc[r]) =>
                 IF abortRef THEN (Cancelled(r))'
                 ELSE pc'[r] # "await_session_failed"]_vars

\* an abort request addressed to both of two overlapping runs: the first has
\* been cancelled at its boundary, the second, called before the request, is
\* still on its way to its own
C28_Witness ==
    /\ Cancelled(1)
    /\ IssuedOf(calls[1], "merge") # {}
    /\ pc[2] = "await_extract"
    /\ abortRef

\* the concept has element ids of this dataset only
OnlyD1(c) == c.d1Ids # <<>> /\ c.d2Ids = <<>>
OnlyD2(c) == c.d2Ids # <<>> /\ c.d1Ids = <<>>

\* concept c has a node with this sourceDataset and tag, and from the node of
\* each of these element ids an edge of this type
Materialized(c, dataset, tag, ids, edgeType) ==
    \E n \in ConceptNodesOf(c) :
        /\ nodes[n].sourceDataset = dataset
        /\ nodes[n].metadata = tag
        /\ \A id \in ToSet(ids) :
              \E i \in EdgesOf(id, c) : edges[i].edgeType = edgeType

\* C24 as stated: after a run on a fresh session has completed with all writes
\* succeeding, every concept of its merge result with D1 elements only has a
\* concept node of sourceDataset dataset1 tagged gap, with a defines edge from
\* each of its elements; every concept with D2 elements only a node of
\* dataset2 tagged orphan, with implements edges; and a concept node carries
\* sourceDataset both only if its concept has a D1 id and a D2 id.
C24_GapOrphanMaterialization ==
    \A r \in Runs :
        (CompletedClean(r) /\ FreshSession(r)
            /\ mergeResult[r] \in CoveringResults(input[r])) =>
            LET cw == ConceptWrites(mergeResult[r])
            IN  \A k \in DOMAIN cw :
                    /\ OnlyD1(cw[k]) =>
                           Materialized(cw[k], "dataset1", "gap", cw[k].d1Ids, "defines")
                    /\ OnlyD2(cw[k]) =>
                           Materialized(cw[k], "dataset2", "orphan", cw[k].d2Ids, "implements")
                    /\ \A n \in ConceptNodesOf(cw[k]) :
                           nodes[n].sourceDataset = "both" =>
                               cw[k].d1Ids # <<>> /\ cw[k].d2Ids # <<>>


\* the concepts of the merge answer of run r that hold element id
OwnersOf(r, id) ==
    { k \in DOMAIN ConceptWrites(mergeResult[r]) :
        id \in IdsOf(ConceptWrites(mergeResult[r])[k]) }

\* the elements of this list that the Venn result of run r lists as aligned
AlignedIn(r, elements) ==
    { k \in DOMAIN elements : elements[k] \in ToSet(venn[r].aligned) }

\* the Venn result of run r was made without scorer cells
Fallback(r) == venn[r].present /\ ~venn[r].scored

\* C21: in a Venn result made without scorer cells, an element that belongs
\* to a concept of the merge answer is listed as aligned exactly when that
\* concept has a D1 id and a D2 id, and otherwise as uniqueToD1 when it is a D1
\* element and as uniqueToD2 when it is a D2 element; totalD1Coverage is the
\* percentage of the D1 elements listed as aligned, totalD2Coverage that of
\* the D2 elements, and both lie in 0..100.
C21_VennFallback ==
    \A r \in Runs :
        Fallback(r) =>
            LET cw == ConceptWrites(mergeResult[r])
                d1 == input[r].d1Elements
                d2 == input[r].d2Elements
            IN  /\ \A id \in ElementIdsOf(input[r]) : \A k \in OwnersOf(r, id) :
                      /\ id \in ToSet(venn[r].aligned) <=>
                             (cw[k].d1Ids # <<>> /\ cw[k].d2Ids # <<>>)
                      /\ id \notin ToSet(venn[r].aligned) =>
                             /\ id \in ToSet(d1) => id \in ToSet(venn[r].uniqueToD1)
                             /\ id \in ToSet(d2) => id \in ToSet(venn[r].uniqueToD2)
                /\ venn[r].summary.totalD1Coverage =
                       Coverage(Cardinality(AlignedIn(r, d1)), Len(d1))
                /\ venn[r].summary.totalD2Coverage =
                       Coverage(Cardinality(AlignedIn(r, d2)), Len(d2))
                /\ venn[r].summary.totalD1Coverage \in 0..100
                /\ venn[r].summary.totalD2Coverage \in 0..100

\* a fallback result with an aligned and a unique D1 element: half of D1
\* covered, all of D2
C21_Witness ==
    \E r \in Runs :
        /\ Fallback(r)
        /\ extracted[r].tesseract = "http_error"
        /\ venn[r].aligned = <<"A", "X">>
        /\ venn[r].uniqueToD1 = <<"B">>
        /\ venn[r].summary = [totalD1Coverage |-> 50, totalD2Coverage |-> 100]


\* run r is a second run on the session of run r - 1, with the same input and
\* the same merge answer; both completed and no persistence call failed
Rerun(r) ==
    /\ r > 1
    /\ CompletedClean(r - 1) /\ CompletedClean(r)
    /\ \A q \in Runs : q < r - 1 => pc[q] = "idle"
    /\ input[r] = input[r - 1]
    /\ mergeResult[r] = mergeResult[r - 1]
    /\ mergeResult[r] \in CoveringResults(input[r])

\* the lookup of run r resolves id to the element node of id
ResolvesToElement(r, id) ==
    LET k == FindNode(allNodes[r], id)
    IN  /\ k # 0
        /\ allNodes[r].nodes[k].nodeType \in ElementTypes
        /\ allNodes[r].nodes[k].sourceElementIds = <<id>>

\* C30 as stated: when a second run on the session has completed with the
\* merge answer of the first, its lookup resolved every element id of every
\* concept to the element's node, and every membership of an element in a
\* concept is represented by exactly one edge from the element's node to the
\* concept's node.
C30_RerunConsistent ==
    \A r \in Runs :
        Rerun(r) =>
            LET cw == ConceptWrites(mergeResult[r])
            IN  \A k \in DOMAIN cw : \A id \in IdsOf(cw[k]) :
                    /\ ResolvesToElement(r, id)
                    /\ Cardinality(EdgesOf(id, cw[k])) = 1


(***************************************************************************)
(* Properties of the groups, the pass-through and the merge log.           *)
(***************************************************************************)
\* the proposal without its group j
WithoutGroup(ms, j) == SubSeq(ms, 1, j - 1) \o SubSeq(ms, j + 1, Len(ms))

\* the groups of the proposal that resolve to two or more valid members
Merging(cs, ms) == { g \in DOMAIN ms : Len(ValidSources(cs, ms)[g]) >= 2 }

\* C22: a label that matches no input concept, whatever its case, resolves to
\* nothing: every valid member is an input concept whose lower-cased label is
\* the lower-cased form of a label of its group, and every output concept is
\* an input concept or the merged concept of a group with 2+ valid members.
\* A group with exactly one valid member emits no merged concept and no log
\* entry and leaves its member unmarked: the next group that lists the member
\* resolves it, and when no later group absorbs it, it is in the output
\* unchanged.  A group with fewer than 2 valid members has no effect: the
\* response is the response to the proposal without it.
C22_DegenerateGroups ==
    mstatus = "done" =>
        LET v == ValidSources(concepts, proposed)
        IN  /\ \A g \in DOMAIN proposed : \A n \in DOMAIN v[g] :
                   /\ v[g][n] \in ToSet(concepts)
                   /\ References(proposed, g, ToLowerCase(v[g][n].label))
            /\ \A o \in DOMAIN mergeResponse.concepts :
                   \/ mergeResponse.concepts[o] \in ToSet(concepts)
                   \/ \E g \in Merging(concepts, proposed) :
                          mergeResponse.concepts[o] = MergedConcept(proposed[g], v[g])
            /\ Len(mergeResponse.mergeLog) = Cardinality(Merging(concepts, proposed))
            /\ \A j \in DOMAIN proposed :
                   Len(v[j]) = 1 =>
                       LET k == ToLowerCase(v[j][1].label)
                       IN  /\ \A l \in DOMAIN proposed :
                                  (l > j /\ References(proposed, l, k)
                                     /\ \A i \in DOMAIN proposed :
                                            (j < i /\ i < l) => ~Absorbs(v[i], k))
                                  => Resolves(v[l], k)
                           /\ (\A l \in DOMAIN proposed : l > j => ~Absorbs(v[l], k))
                                  => v[j][1] \in ToSet(mergeResponse.concepts)
            /\ \A j \in DOMAIN proposed :
                   Len(v[j]) < 2 =>
                       mergeResponse = Reconcile(concepts, WithoutGroup(proposed, j))

\* C22 witness: a group of a hallucinated label and one known label, whose
\* member a later group merges with another concept
C22_Witness ==
    /\ mstatus = "done"
    /\ LET v == ValidSources(concepts, proposed)
       IN  \E j, l \in DOMAIN proposed :
               /\ j < l
               /\ \E n \in DOMAIN proposed[j].sourceConcepts :
                      ~HasConcept(concepts, ToLowerCase(proposed[j].sourceConcepts[n]))
               /\ Len(v[j]) = 1
               /\ Absorbs(v[l], ToLowerCase(v[j][1].label))
               /\ Len(mergeResponse.mergeLog) = 1

\* the input concepts that a group with 2+ valid members merged
Consumed(cs, ms) ==
    UNION { ToSet(ValidSources(cs, ms)[g]) : g \in Merging(cs, ms) }

\* C23 as stated: every input concept that no group with 2+ valid members
\* consumed is in the output as often as in the input, with label,
\* description, d1Ids, d2Ids and elementLabels unchanged; with an empty merges
\* list the output list is the input list.
C23_PassThroughFrame ==
    mstatus = "done" =>
        /\ \A c \in ToSet(concepts) \ Consumed(concepts, proposed) :
               Occurrences(mergeResponse.concepts, c) = Occurrences(concepts, c)
        /\ proposed = <<>> => mergeResponse.concepts = concepts

RECURSIVE SumFrom(_)
\* the number of source labels over the entries of a merge log
SumFrom(log) == IF log = <<>> THEN 0 ELSE Len(Head(log).from) + SumFrom(Tail(log))

\* C27 as stated: the merge log has one entry per merged concept emitted,
\* every entry lists at least 2 source labels, no input concept is listed in
\* two entries, and outputCount = inputCount - (sum of |from|) + (entries).
C27_MergeLogConsistency ==
    mstatus = "done" =>
        LET log == mergeResponse.mergeLog
            v   == ValidSources(concepts, proposed)
        IN  /\ Len(log) = Cardinality(Merging(concepts, proposed))
            /\ \A e \in DOMAIN log :
                   /\ Len(log[e].from) >= 2
                   /\ \E o \in DOMAIN mergeResponse.concepts :
                          mergeResponse.concepts[o].label = log[e].to
            /\ Cardinality({ o \in DOMAIN mergeResponse.concepts :
                                 mergeResponse.concepts[o] \notin ToSet(concepts) })
                   = Len(log)
            /\ \A a, b \in DOMAIN log :
                   a # b => LogKeys(log[a]) \cap LogKeys(log[b]) = {}
            /\ \A e \in DOMAIN log : \A m, n \in DOMAIN log[e].from :
                   m # n => log[e].from[m] # log[e].from[n]
            /\ mergeResponse.inputCount = Len(concepts)
            /\ mergeResponse.outputCount = Len(mergeResponse.concepts)
            /\ mergeResponse.outputCount
                   = mergeResponse.inputCount - SumFrom(log) + Len(log)

====
